---- MODULE Spec2Model ----
(***************************************************************************)
(* Verification model of the CarePilot action core:                        *)
(*   carepilot_agent_core/lifecycle.py  (action ledger, start, transition) *)
(*   carepilot_agent_core/executor.py   (AgentExecutor.execute)            *)
(*   carepilot_agent_core/policy.py     (PolicyEngine.evaluate)            *)
(*   carepilot_agent_core/hooks.py      (HookRunner)                       *)
(*   memory/service.py, clinical_store.py (consent tokens)                 *)
(*   main.py                            (CarePilotApp hooks, payload hash) *)
(*                                                                         *)
(* Time is counted in half hours: the replay bucket (one clock hour) is    *)
(* two ticks wide.  Every SQLite statement is one atomic step; a method    *)
(* that reads and then writes outside one transaction is two steps.        *)
(***************************************************************************)
EXTENDS Integers, Sequences, FiniteSets, TLC

VARIABLES
    clock,        \* utc_now(), in ticks
    ledger,       \* table action_audit: a sequence of rows, action_id = index
    tokens,       \* table consent_tokens: a sequence of rows, in issue order
    policy_events,\* number of rows of table policy_events
    handler_calls,\* per action_id, how often a tool handler ran for it
    executors,    \* per action_id, how many execute calls went on to run it
    pc,           \* per thread, its position in the call it is serving
    call,         \* per thread, the arguments of that call
    loc,          \* per thread, the local variables of that call
    ret,          \* per thread, what its last call returned
    ncalls,       \* calls issued so far
    symptom_states, \* table symptom_states: a sequence of rows
    inferences,   \* table inferences: a sequence of rows
    health_signals, \* table health_signals: a sequence of rows
    sweep         \* the last apply_temporal: its user, time and result

\* the tables of the clinical memory and the last sweep over them
memvars == <<symptom_states, inferences, health_signals, sweep>>

vars == <<clock, ledger, tokens, policy_events, handler_calls, executors, pc, call, loc, ret, ncalls,
          memvars>>

(***************************************************************************)
(* Bounds                                                                  *)
(***************************************************************************)
MaxCalls == 2
MaxClock == 2
MaxExecs == 2
MaxRaceCalls == 3

Threads == {"w1", "w2"}
Users == {"u1", "u2"}
NULL == "null"

\* the n-th generated token (uuid4): a fresh string each time
TokenNames == <<"ctk1", "ctk2", "ctk3">>

(***************************************************************************)
(* models.py, lifecycle.py: states and the transition table                *)
(***************************************************************************)
ACTION_STATES ==
    {"planned", "awaiting_confirmation", "executing", "succeeded", "failed",
     "partial", "blocked", "expired", "pending"}

\* the set literal used at executor.py:53 and lifecycle.py:144
FINISHED_STATES == {"succeeded", "failed", "partial", "blocked", "expired"}

\* variant: a succeeded action can still be failed
TRANSITIONS_reopen(current) ==
    CASE current = "planned" -> {"awaiting_confirmation", "executing", "blocked", "failed"}
      [] current = "awaiting_confirmation" -> {"executing", "expired", "blocked", "failed"}
      [] current = "executing" -> {"succeeded", "failed", "partial", "blocked", "expired", "pending"}
      [] current = "pending" -> {"succeeded", "failed", "partial", "blocked", "expired"}
      [] current = "succeeded" -> {"failed"}
      [] OTHER -> {}

TRANSITIONS(current) ==
    CASE current = "planned" -> {"awaiting_confirmation", "executing", "blocked", "failed"}
      [] current = "awaiting_confirmation" -> {"executing", "expired", "blocked", "failed"}
      [] current = "executing" -> {"succeeded", "failed", "partial", "blocked", "expired", "pending"}
      [] current = "pending" -> {"succeeded", "failed", "partial", "blocked", "expired"}
      [] OTHER -> {}

\* variant: one bucket for all time
replay_bucket_unbounded(now) == 0

\* _replay_bucket: the clock hour of now (strftime "%Y-%m-%dT%H"); an hour
\* of this model is two ticks
replay_bucket(now) == now \div 2

\* COALESCE(new, old) of the UPDATE in transition
COALESCE(new, old) == IF new # NULL THEN new ELSE old


(***************************************************************************)
(* lifecycle.py: the rows of action_audit                                  *)
(***************************************************************************)
\* a nullable timestamp is <<>> (NULL) or <<t>>
NoTime == <<>>
At(t) == <<t>>

\* the row INSERTed by start (created_at equals started_at and is left out,
\* payload_json is represented by payload_hash)
NewRow(user_id, session_key, action_type, payload_hash, idempotency_key, consent_token, now) ==
    [user_id |-> user_id,
     session_key |-> session_key,
     action_type |-> action_type,
     payload_hash |-> payload_hash,
     idempotency_key |-> idempotency_key,
     replay_window_bucket |-> replay_bucket(now),
     consent_token |-> consent_token,
     token_present |-> (consent_token # NULL),
     status |-> "planned",
     lifecycle |-> <<"planned">>,
     result_json |-> NULL,
     error_code |-> NULL,
     error_message |-> NULL,
     started_at |-> now,
     finished_at |-> NoTime,
     updated_at |-> now]

\* variant: the constraint and the lookup without user_id
SameKey_any_user(L, user_id, idempotency_key, bucket) ==
    {i \in 1..Len(L) : /\ L[i].idempotency_key = idempotency_key
                       /\ L[i].replay_window_bucket = bucket}

\* the rows the constraint UNIQUE(user_id, idempotency_key, replay_window_bucket)
\* of database.py puts in conflict with a new row
SameKey(L, user_id, idempotency_key, bucket) ==
    {i \in 1..Len(L) : /\ L[i].user_id = user_id
                       /\ L[i].idempotency_key = idempotency_key
                       /\ L[i].replay_window_bucket = bucket}

\* variant: the table without its UNIQUE constraint
IntegrityError_off(L, user_id, idempotency_key, bucket) == FALSE

\* the INSERT of start raises IntegrityError
IntegrityError(L, user_id, idempotency_key, bucket) ==
    SameKey(L, user_id, idempotency_key, bucket) # {}

\* variant: INSERT OR REPLACE, the conflicting row takes the new call's values
start_upsert(L, user_id, session_key, action_type, payload_hash, idempotency_key, consent_token, now) ==
    IF ~IntegrityError(L, user_id, idempotency_key, replay_bucket(now))
    THEN [ledger |-> Append(L, NewRow(user_id, session_key, action_type, payload_hash,
                                      idempotency_key, consent_token, now)),
          record |-> [action_id |-> Len(L) + 1,
                      status |-> "planned",
                      lifecycle |-> <<"planned">>,
                      result_json |-> NULL,
                      replayed |-> FALSE]]
    ELSE LET i == CHOOSE i \in SameKey(L, user_id, idempotency_key, replay_bucket(now)) : TRUE
         IN  [ledger |-> [L EXCEPT ![i].session_key = session_key,
                                   ![i].action_type = action_type,
                                   ![i].payload_hash = payload_hash,
                                   ![i].consent_token = consent_token,
                                   ![i].token_present = (consent_token # NULL),
                                   ![i].updated_at = now],
              record |-> [action_id |-> i,
                          status |-> L[i].status,
                          lifecycle |-> L[i].lifecycle,
                          result_json |-> L[i].result_json,
                          replayed |-> TRUE]]

\* ActionLifecycleService.start: the ledger after the call and the
\* ActionRecord it returns
start(L, user_id, session_key, action_type, payload_hash, idempotency_key, consent_token, now) ==
    IF ~IntegrityError(L, user_id, idempotency_key, replay_bucket(now))
    THEN [ledger |-> Append(L, NewRow(user_id, session_key, action_type, payload_hash,
                                      idempotency_key, consent_token, now)),
          record |-> [action_id |-> Len(L) + 1,
                      status |-> "planned",
                      lifecycle |-> <<"planned">>,
                      result_json |-> NULL,
                      replayed |-> FALSE]]
    ELSE LET i == CHOOSE i \in SameKey(L, user_id, idempotency_key, replay_bucket(now)) : TRUE
         IN  [ledger |-> L,
              record |-> [action_id |-> i,
                          status |-> L[i].status,
                          lifecycle |-> L[i].lifecycle,
                          result_json |-> L[i].result_json,
                          replayed |-> TRUE]]

\* transition, lines 129-140: the SELECT and the validation.  TRUE when the
\* call raises LifecycleError (no row, or next_state not allowed)
transition_rejects(L, action_id, next_state) ==
    \/ action_id \notin 1..Len(L)
    \/ next_state \notin TRANSITIONS(L[action_id].status)

\* variant: the last element is overwritten instead of appended to
appended_in_place(lifecycle, next_state) ==
    [lifecycle EXCEPT ![Len(lifecycle)] = next_state]

\* transition, lines 142-144: the list the call appends to and returns
appended(lifecycle, next_state) == Append(lifecycle, next_state)

finished_stamp(next_state, now) ==
    IF next_state \in FINISHED_STATES THEN At(now) ELSE NoTime

\* variant: an UPDATE that does not write lifecycle_json
transition_update_keeps_list(row, new_lifecycle, next_state, result, error_code, error_message, now) ==
    [row EXCEPT !.status = next_state,
                !.result_json = COALESCE(result, @),
                !.error_code = COALESCE(error_code, @),
                !.error_message = COALESCE(error_message, @),
                !.finished_at = IF finished_stamp(next_state, now) # NoTime
                                THEN finished_stamp(next_state, now) ELSE @,
                !.updated_at = now]

\* transition, lines 145-167: the UPDATE, applied to the row as it is when
\* the statement runs; new_lifecycle is the list built from the earlier SELECT
transition_update(row, new_lifecycle, next_state, result, error_code, error_message, now) ==
    [row EXCEPT !.status = next_state,
                !.lifecycle = new_lifecycle,
                !.result_json = COALESCE(result, @),
                !.error_code = COALESCE(error_code, @),
                !.error_message = COALESCE(error_message, @),
                !.finished_at = IF finished_stamp(next_state, now) # NoTime
                                THEN finished_stamp(next_state, now) ELSE @,
                !.updated_at = now]


(***************************************************************************)
(* Payloads and their hashes.  A payload is a dict with the keys body (all *)
(* business fields together), idempotency_key, target_user_id,             *)
(* consent_token and payload_hash; NULL / NoHash is an absent key.         *)
(* sha256 is collision free here: a hash is the canonical tuple hashed.    *)
(***************************************************************************)
NoHash == <<>>

\* service.py: json.dumps(payload, sort_keys=True) over every key present
canonical_payload_hash(payload) ==
    <<payload.body, payload.idempotency_key, payload.target_user_id,
      payload.consent_token>> \o payload.payload_hash

\* main.py: drops the keys consent_token and payload_hash
sanitize_payload_for_hash(payload) ==
    [payload EXCEPT !.consent_token = NULL, !.payload_hash = NoHash]

tool_params_hash(payload) == canonical_payload_hash(sanitize_payload_for_hash(payload))

\* executor.py: sha256 of "user:action:hash:session"
default_idempotency_key(user_id, action_type, payload, session_key) ==
    <<"sha256", user_id, action_type>> \o canonical_payload_hash(payload) \o <<session_key>>

\* executor.py:38: payload.get("idempotency_key") or the default key
idempotency_key_of(ctx, tool_name, payload) ==
    IF payload.idempotency_key # NULL
    THEN <<payload.idempotency_key>>
    ELSE default_idempotency_key(ctx.user_id, tool_name, payload, ctx.session_key)

(***************************************************************************)
(* registry.py and the tools registered by register_tools                  *)
(***************************************************************************)
transactional_tools == {"appointment_book", "medical_purchase", "medication_refill_request"}

allowlist ==
    {"clinical_profile_get", "clinical_profile_upsert", "lab_clinic_discovery",
     "appointment_book", "medical_purchase", "medication_refill_request",
     "consent_token_issue"}

registered_tools ==
    {"clinical_profile_get", "clinical_profile_upsert", "lab_clinic_discovery",
     "appointment_book", "medical_purchase", "medication_refill_request",
     "consent_token_issue"}

\* ToolRegistry.resolve; the caller checks registered_tools first (KeyError)
resolve(name) ==
    [name |-> name, transactional |-> (name \in transactional_tools)]

(***************************************************************************)
(* policy.py                                                               *)
(***************************************************************************)
\* variant: the cross-user check comes before the emergency check
evaluate_cross_user_first(ctx, tool, payload) ==
    IF tool.name \notin allowlist
    THEN [allowed |-> FALSE, code |-> "allowlist_denied",
          message |-> <<"Tool '", tool.name, "' is not allowlisted.">>]
    ELSE IF payload.target_user_id # NULL /\ payload.target_user_id # ctx.user_id
    THEN [allowed |-> FALSE, code |-> "cross_user_block",
          message |-> "Cross-user target is blocked."]
    ELSE IF tool.name \in transactional_tools /\ ctx.emergency
    THEN [allowed |-> FALSE, code |-> "emergency_transaction_block",
          message |-> "Transactional actions are blocked in an emergency context."]
    ELSE [allowed |-> TRUE, code |-> "ok", message |-> "allowed"]

evaluate(ctx, tool, payload) ==
    IF tool.name \notin allowlist
    THEN [allowed |-> FALSE, code |-> "allowlist_denied",
          message |-> <<"Tool '", tool.name, "' is not allowlisted.">>]
    ELSE IF tool.name \in transactional_tools /\ ctx.emergency
    THEN [allowed |-> FALSE, code |-> "emergency_transaction_block",
          message |-> "Transactional actions are blocked in an emergency context."]
    ELSE IF payload.target_user_id # NULL /\ payload.target_user_id # ctx.user_id
    THEN [allowed |-> FALSE, code |-> "cross_user_block",
          message |-> "Cross-user target is blocked."]
    ELSE [allowed |-> TRUE, code |-> "ok", message |-> "allowed"]

(***************************************************************************)
(* Consent tokens: service.py, clinical_store.py                           *)
(***************************************************************************)
\* ttl = max(30, min(3600, expires_in_seconds)): between one tick and an hour
clamp_ttl(expires_in) ==
    IF expires_in < 1 THEN 1 ELSE IF expires_in > 2 THEN 2 ELSE expires_in

\* the row INSERTed by issue_consent_token
NewToken(token, user_id, action_type, payload_hash, expires_in, now) ==
    [token |-> token,
     user_id |-> user_id,
     action_type |-> action_type,
     payload_hash |-> payload_hash,
     issued_at |-> now,
     expires_at |-> now + clamp_ttl(expires_in),
     used_at |-> NoTime]

\* ClinicalStore.get_consent_token: the rows with that primary key
get_consent_token(T, token) == {i \in 1..Len(T) : T[i].token = token}

\* variant: a validation that does not compare the payload hash
validate_consent_token_unbound(T, user_id, action_type, payload_hash, token, now) ==
    IF get_consent_token(T, token) = {}
    THEN [ok |-> FALSE, reason |-> "Consent token not found."]
    ELSE LET token_row == T[CHOOSE i \in get_consent_token(T, token) : TRUE]
         IN  IF token_row.user_id # user_id
             THEN [ok |-> FALSE, reason |-> "Consent token does not match user."]
             ELSE IF token_row.action_type # action_type
             THEN [ok |-> FALSE, reason |-> "Consent token does not match action."]
             ELSE IF token_row.used_at # NoTime
             THEN [ok |-> FALSE, reason |-> "Consent token already used."]
             ELSE IF token_row.expires_at <= now
             THEN [ok |-> FALSE, reason |-> "Consent token expired."]
             ELSE [ok |-> TRUE, reason |-> "ok"]

\* variant: a validation that does not look at used_at
validate_consent_token_reusable(T, user_id, action_type, payload_hash, token, now) ==
    IF get_consent_token(T, token) = {}
    THEN [ok |-> FALSE, reason |-> "Consent token not found."]
    ELSE LET token_row == T[CHOOSE i \in get_consent_token(T, token) : TRUE]
         IN  IF token_row.user_id # user_id
             THEN [ok |-> FALSE, reason |-> "Consent token does not match user."]
             ELSE IF token_row.action_type # action_type
             THEN [ok |-> FALSE, reason |-> "Consent token does not match action."]
             ELSE IF token_row.payload_hash # payload_hash
             THEN [ok |-> FALSE, reason |-> "Consent token payload mismatch."]
             ELSE IF token_row.expires_at <= now
             THEN [ok |-> FALSE, reason |-> "Consent token expired."]
             ELSE [ok |-> TRUE, reason |-> "ok"]

\* MemoryService.validate_consent_token up to the consume step: (ok, reason)
validate_consent_token(T, user_id, action_type, payload_hash, token, now) ==
    IF get_consent_token(T, token) = {}
    THEN [ok |-> FALSE, reason |-> "Consent token not found."]
    ELSE LET token_row == T[CHOOSE i \in get_consent_token(T, token) : TRUE]
         IN  IF token_row.user_id # user_id
             THEN [ok |-> FALSE, reason |-> "Consent token does not match user."]
             ELSE IF token_row.action_type # action_type
             THEN [ok |-> FALSE, reason |-> "Consent token does not match action."]
             ELSE IF token_row.payload_hash # payload_hash
             THEN [ok |-> FALSE, reason |-> "Consent token payload mismatch."]
             ELSE IF token_row.used_at # NoTime
             THEN [ok |-> FALSE, reason |-> "Consent token already used."]
             ELSE IF token_row.expires_at <= now
             THEN [ok |-> FALSE, reason |-> "Consent token expired."]
             ELSE [ok |-> TRUE, reason |-> "ok"]

\* ClinicalStore.mark_consent_token_used: UPDATE ... WHERE token = ?
mark_consent_token_used(T, token, now) ==
    [i \in 1..Len(T) |-> IF T[i].token = token
                         THEN [T[i] EXCEPT !.used_at = At(now)] ELSE T[i]]

(***************************************************************************)
(* main.py: the hooks CarePilotApp registers; hooks.py                     *)
(***************************************************************************)
\* variant: a presented token is not validated
before_tool_call_trusting(ctx, tool, payload, T, now) ==
    IF tool.name \notin transactional_tools
    THEN [allowed |-> TRUE, code |-> "ok", message |-> "allowed"]
    ELSE IF ctx.emergency
    THEN [allowed |-> FALSE, code |-> "emergency_transaction_block",
          message |-> "Emergency context blocks transactional actions."]
    ELSE IF payload.consent_token = NULL
    THEN [allowed |-> FALSE, code |-> "missing_consent_token",
          message |-> "Consent token required for transactional action."]
    ELSE [allowed |-> TRUE, code |-> "ok", message |-> "allowed"]

before_tool_call(ctx, tool, payload, T, now) ==
    IF tool.name \notin transactional_tools
    THEN [allowed |-> TRUE, code |-> "ok", message |-> "allowed"]
    ELSE IF ctx.emergency
    THEN [allowed |-> FALSE, code |-> "emergency_transaction_block",
          message |-> "Emergency context blocks transactional actions."]
    ELSE IF payload.consent_token = NULL
    THEN [allowed |-> FALSE, code |-> "missing_consent_token",
          message |-> "Consent token required for transactional action."]
    ELSE IF payload.payload_hash # NoHash /\ payload.payload_hash # tool_params_hash(payload)
    THEN [allowed |-> FALSE, code |-> "invalid_consent_token",
          message |-> "Consent payload hash mismatch."]
    ELSE LET v == validate_consent_token(T, ctx.user_id, tool.name, tool_params_hash(payload),
                                         payload.consent_token, now)
         IN  IF ~v.ok
             THEN [allowed |-> FALSE, code |-> "invalid_consent_token", message |-> v.reason]
             ELSE [allowed |-> TRUE, code |-> "ok", message |-> "allowed"]

\* HookRunner._before_hooks as CarePilotApp fills it
before_hooks == <<"_before_tool_call">>

\* a pre-hook another embedding of the executor registers: it denies the
\* requests whose body is b2, whatever the tool
denying_hook(ctx, tool, payload) ==
    IF payload.body = "b2"
    THEN [allowed |-> FALSE, code |-> "hook_denied", message |-> "denied by hook"]
    ELSE [allowed |-> TRUE, code |-> "ok", message |-> "allowed"]

\* the call hook(ctx, tool, payload) of a registered pre-hook
before_hook(name, ctx, tool, payload, T, now) ==
    IF name = "_before_tool_call" THEN before_tool_call(ctx, tool, payload, T, now)
    ELSE denying_hook(ctx, tool, payload)

\* the loop of run_before from the i-th hook on: the decision it returns and
\* the hooks it called, in order
RECURSIVE run_before_from(_, _, _, _, _, _, _)
run_before_from(i, hooks, ctx, tool, payload, T, now) ==
    IF i > Len(hooks)
    THEN [decision |-> [allowed |-> TRUE, code |-> "ok", message |-> "allowed"],
          called |-> <<>>]
    ELSE LET decision == before_hook(hooks[i], ctx, tool, payload, T, now)
         IN  IF ~decision.allowed THEN [decision |-> decision, called |-> <<hooks[i]>>]
             ELSE LET rest == run_before_from(i + 1, hooks, ctx, tool, payload, T, now)
                  IN  [rest EXCEPT !.called = <<hooks[i]>> \o @]

\* variant: the hooks are called last registered first
run_before_reversed(hooks, ctx, tool, payload, T, now) ==
    run_before_from(1, [i \in 1..Len(hooks) |-> hooks[Len(hooks) + 1 - i]],
                    ctx, tool, payload, T, now)

\* HookRunner.run_before
run_before(hooks, ctx, tool, payload, T, now) ==
    run_before_from(1, hooks, ctx, tool, payload, T, now)

\* variant: the token is consumed whatever the status of the outcome
after_marks_token_any_status(tool, payload, outcome) ==
    /\ tool.name \in transactional_tools
    /\ payload.consent_token # NULL

\* _after_tool_call: does it mark the token used
after_marks_token(tool, payload, outcome) ==
    /\ tool.name \in transactional_tools
    /\ outcome.status \in {"succeeded", "partial"}
    /\ payload.consent_token # NULL

\* _after_tool_call: the consent_tokens table after the hook
after_tool_call(tool, payload, outcome, T, now) ==
    IF after_marks_token(tool, payload, outcome)
    THEN mark_consent_token_used(T, payload.consent_token, now)
    ELSE T

\* CarePilotApp.__init__: hooks.add_after
after_hooks == <<"_after_tool_call">>

\* what run_after has done so far: the tables, the hooks it invoked, and
\* whether a hook raised
AfterState(T, events, invoked, raised) ==
    [tokens |-> T, policy_events |-> events, invoked |-> invoked, raised |-> raised]

\* the call hook(ctx, tool, payload, outcome) of a registered post-hook;
\* _after_tool_call appends a policy event and consumes the token, any other
\* hook writes nothing here; the hooks in failing raise
after_hook(name, failing, tool, payload, outcome, st, now) ==
    LET invoked == Append(st.invoked, name)
    IN  IF name \in failing
        THEN AfterState(st.tokens, st.policy_events, invoked, TRUE)
        ELSE IF name = "_after_tool_call"
        THEN AfterState(after_tool_call(tool, payload, outcome, st.tokens, now),
                        st.policy_events + 1, invoked, FALSE)
        ELSE AfterState(st.tokens, st.policy_events, invoked, FALSE)

\* HookRunner.run_after: for hook in self._after_hooks: hook(...)
RECURSIVE run_after_from(_, _, _, _, _, _, _, _)
run_after_from(i, hooks, failing, tool, payload, outcome, st, now) ==
    IF i > Len(hooks) THEN st
    ELSE LET next == after_hook(hooks[i], failing, tool, payload, outcome, st, now)
         IN  IF next.raised THEN next
             ELSE run_after_from(i + 1, hooks, failing, tool, payload, outcome, next, now)

run_after(hooks, failing, tool, payload, outcome, T, events, now) ==
    run_after_from(1, hooks, failing, tool, payload, outcome,
                   AfterState(T, events, <<>>, FALSE), now)

(***************************************************************************)
(* executor.py: pure parts of AgentExecutor.execute                        *)
(***************************************************************************)
\* variant: only a succeeded action is replayed
is_terminal_replay_succeeded_only(action) == action.replayed /\ action.status = "succeeded"

\* variant: a blocked action is executed again by its replay
is_terminal_replay_not_blocked(action) ==
    action.replayed /\ action.status \in FINISHED_STATES \ {"blocked"}

\* line 53: a replay of a finished action returns at once
is_terminal_replay(action) == action.replayed /\ action.status \in FINISHED_STATES

\* variant: a denial always sends the action to blocked
denied_state_always_blocked(current_state) == "blocked"

\* lines 81 and 93
denied_state(current_state) ==
    IF current_state \in {"planned", "awaiting_confirmation"} THEN "blocked" ELSE "failed"

\* variant: a status outside the six is reported as failed
result_state_of_unknown_fails(tool_output) ==
    IF tool_output.status \in {"succeeded", "failed", "partial", "blocked", "expired", "pending"}
    THEN tool_output.status ELSE "failed"

\* lines 137-139
result_state_of(tool_output) ==
    IF tool_output.status \in {"succeeded", "failed", "partial", "blocked", "expired", "pending"}
    THEN tool_output.status ELSE "succeeded"

\* ToolExecutionResult.data: a dict, here its tool data and the two keys a
\* replay adds
Data(value, replayed, key) == [value |-> value, replayed |-> replayed, idempotency_key |-> key]
NoData == Data(NULL, FALSE, <<>>)

Result(status, data, errors, lifecycle, action_id) ==
    [kind |-> "ToolExecutionResult", status |-> status, data |-> data, errors |-> errors,
     lifecycle |-> lifecycle, action_id |-> action_id]

Err(code, message) == <<[code |-> code, message |-> message]>>

\* lines 53-63
replay_result(action, key) ==
    Result(action.status, Data(action.result_json, TRUE, key), <<>>, action.lifecycle,
           action.action_id)

(***************************************************************************)
(* memory/temporal_lifecycle.py, memory/clinical_store.py: the clinical    *)
(* memory and its decay sweep.  Stored times are ISO texts, modelled as    *)
(* <<t>> with t the tick they name; <<>> is a text parse_iso cannot read.  *)
(***************************************************************************)
RECONFIRM_HOURS == 48
AUTO_RESOLVE_DAYS == 7

\* timedelta(hours=n), timedelta(days=n) in ticks; an hour is two ticks, as
\* in replay_bucket
hours(n) == 2 * n
days(n) == hours(24 * n)

\* time_utils.to_iso
to_iso(t) == <<t>>

\* time_utils.parse_iso: does it return a time, and which
parses(text) == Len(text) = 1
parse_iso(text) == text[1]

\* variant: the thresholds are compared with > instead of >=
sweep_symptom_state_strict(row, user_id, now) ==
    IF row.user_id # user_id \/ ~parses(row.last_confirmed_at) THEN row
    ELSE LET elapsed == now - parse_iso(row.last_confirmed_at)
         IN  IF row.status = "active" /\ elapsed > days(AUTO_RESOLVE_DAYS)
             THEN [row EXCEPT !.status = "resolved_unconfirmed", !.updated_at = to_iso(now)]
             ELSE IF row.status = "active" /\ elapsed > hours(RECONFIRM_HOURS)
             THEN [row EXCEPT !.reconfirm_due_at = to_iso(now), !.updated_at = to_iso(now)]
             ELSE row

\* lines 37-64: what the loop does to one row of symptom_states
sweep_symptom_state(row, user_id, now) ==
    IF row.user_id # user_id \/ ~parses(row.last_confirmed_at) THEN row
    ELSE LET elapsed == now - parse_iso(row.last_confirmed_at)
         IN  IF row.status = "active" /\ elapsed >= days(AUTO_RESOLVE_DAYS)
             THEN [row EXCEPT !.status = "resolved_unconfirmed", !.updated_at = to_iso(now)]
             ELSE IF row.status = "active" /\ elapsed >= hours(RECONFIRM_HOURS)
             THEN [row EXCEPT !.reconfirm_due_at = to_iso(now), !.updated_at = to_iso(now)]
             ELSE row

\* the rows the loop counts as resolved, and the ones it reports as due
is_resolved_now(row, user_id, now) ==
    /\ row.user_id = user_id /\ parses(row.last_confirmed_at)
    /\ row.status = "active"
    /\ now - parse_iso(row.last_confirmed_at) >= days(AUTO_RESOLVE_DAYS)

is_reconfirm_due(row, user_id, now) ==
    /\ row.user_id = user_id /\ parses(row.last_confirmed_at)
    /\ row.status = "active"
    /\ now - parse_iso(row.last_confirmed_at) < days(AUTO_RESOLVE_DAYS)
    /\ now - parse_iso(row.last_confirmed_at) >= hours(RECONFIRM_HOURS)

\* variant: the UPDATE of inferences without the condition on status
inference_expires_any_status(row, user_id, now) ==
    row.user_id = user_id /\ row.expires_at[1] <= now

\* lines 66-75: the WHERE clause and the SET clause of the UPDATE of inferences
inference_expires(row, user_id, now) ==
    row.user_id = user_id /\ row.status = "active" /\ row.expires_at[1] <= now

sweep_inference(row, user_id, now) ==
    IF inference_expires(row, user_id, now)
    THEN [row EXCEPT !.status = "expired", !.updated_at = to_iso(now)]
    ELSE row

\* lines 77-86: the WHERE clause and the SET clause of the UPDATE of health_signals
signal_goes_stale(row, user_id, now) ==
    row.user_id = user_id /\ row.stale = 0 /\ row.stale_after[1] <= now

sweep_health_signal(row, user_id, now) ==
    IF signal_goes_stale(row, user_id, now)
    THEN [row EXCEPT !.stale = 1, !.updated_at = to_iso(now)]
    ELSE row

\* TemporalLifecycleService.apply: the three tables after the sweep and the
\* TemporalResult
apply(S, I, H, user_id, now) ==
    LET due(row) == is_reconfirm_due(row, user_id, now)
        due_rows == SelectSeq(S, due)
    IN  [symptom_states |-> [i \in 1..Len(S) |-> sweep_symptom_state(S[i], user_id, now)],
         inferences |-> [i \in 1..Len(I) |-> sweep_inference(I[i], user_id, now)],
         health_signals |-> [i \in 1..Len(H) |-> sweep_health_signal(H[i], user_id, now)],
         result |->
            [reconfirm_due_ids |-> [i \in 1..Len(due_rows) |-> due_rows[i].id],
             resolved_unconfirmed_count |->
                Cardinality({i \in 1..Len(S) : is_resolved_now(S[i], user_id, now)}),
             inference_expired_count |->
                Cardinality({i \in 1..Len(I) : inference_expires(I[i], user_id, now)}),
             stale_health_signal_count |->
                Cardinality({i \in 1..Len(H) : signal_goes_stale(H[i], user_id, now)})]]

\* the record of the last sweep: nobody has swept
NoSweep == [user_id |-> NULL, now |-> 0, streak |-> 0, result |-> <<>>]

\* empty tables
NoMemory ==
    /\ symptom_states = <<>>
    /\ inferences = <<>>
    /\ health_signals = <<>>
    /\ sweep = NoSweep

(***************************************************************************)
(* Threads.  Each request is served by one thread (FastAPI runs the sync   *)
(* endpoints on a thread pool); every thread opens its own connection.     *)
(***************************************************************************)
NoCall == [op |-> "none"]
NoRet == [kind |-> "none"]

EmptyLoc ==
    [action_id |-> 0,            \* action.action_id
     lifecycle |-> <<>>,         \* execute's local `lifecycle`
     current_state |-> NULL,     \* execute's local `current_state`
     replayed |-> FALSE,         \* action.replayed
     site |-> NULL,              \* which call of transition is running
     next_state |-> NULL,        \* transition's arguments
     result |-> NULL,
     error_code |-> NULL,
     error_message |-> NULL,
     row_status |-> NULL,        \* transition's `current`
     row_lifecycle |-> <<>>,     \* transition's `lifecycle` after the SELECT
     now |-> 0,                  \* transition's `now`
     began_finished |-> FALSE,   \* the record had a finished_at when the call began
     policy_code |-> NULL,       \* policy_decision.code
     policy_message |-> NULL,    \* policy_decision.message
     hook_code |-> NULL,         \* hook_decision.code
     hook_message |-> NULL,      \* hook_decision.message
     token_row |-> <<>>,         \* validate_consent_token's token_row, <<>> if not read
     checked_at |-> 0,           \* utc_now() of that validation
     tool_output |-> <<>>,       \* <<the dict tool.handler returned>>, <<>> before
     outcome |-> [status |-> NULL, data |-> NULL, errors |-> <<>>],
     handler_runs |-> 0,         \* tool.handler invocations of this call
     after_runs |-> 0,           \* hooks.run_after invocations of this call
     after_invoked |-> <<>>]     \* the post-hooks run_after invoked, in order

\* the locals that are kept once a call has returned
returned(l) ==
    [EmptyLoc EXCEPT !.action_id = l.action_id, !.replayed = l.replayed,
                     !.handler_runs = l.handler_runs, !.after_runs = l.after_runs,
                     !.after_invoked = l.after_invoked, !.tool_output = l.tool_output]

\* a thread that can take the next request; the pool hands a request to any
\* worker, so w2 is only used once w1 has been
Free(p) ==
    /\ pc[p] \in {"idle", "done"}
    /\ p = "w2" => pc["w1"] # "idle"

(***************************************************************************)
(* ActionLifecycleService called directly                                  *)
(***************************************************************************)
\* what a caller of start can pass besides the key
StartVariants ==
    {[session_key |-> "s1", action_type |-> "appointment_book",
      payload_hash |-> <<"h1">>, consent_token |-> NULL],
     [session_key |-> "s2", action_type |-> "lab_clinic_discovery",
      payload_hash |-> <<"h2">>, consent_token |-> "ctk1"]}

\* what a caller of transition can pass besides action_id and next_state
NoCarry == [result |-> NULL, error_code |-> NULL, error_message |-> NULL]
FullCarry == [result |-> "r1", error_code |-> "e1", error_message |-> "m1"]

\* the calls of transition on a ledger L: every state for every record, a
\* result and an error with some of them, and a call for a missing id
TransitionArgs(L) ==
    {[action_id |-> a, next_state |-> n, carry |-> NoCarry] :
        a \in 1..Len(L), n \in ACTION_STATES}
    \cup {[action_id |-> a, next_state |-> n, carry |-> FullCarry] :
        a \in 1..Len(L), n \in {"succeeded", "failed"}}
    \cup {[action_id |-> Len(L) + 1, next_state |-> "executing", carry |-> NoCarry]}

ApiKeys == {<<"k1">>}

ApiStart(p) ==
    /\ Free(p)
    /\ ncalls < MaxCalls
    /\ \E u \in Users, k \in ApiKeys, v \in StartVariants :
         LET r == start(ledger, u, v.session_key, v.action_type, v.payload_hash, k,
                        v.consent_token, clock)
         IN  /\ ledger' = r.ledger
             /\ handler_calls' = IF Len(r.ledger) > Len(ledger)
                                 THEN Append(handler_calls, 0) ELSE handler_calls
             /\ executors' = IF Len(r.ledger) > Len(ledger)
                              THEN Append(executors, 0) ELSE executors
             /\ call' = [call EXCEPT ![p] =
                            [op |-> "start", seq |-> ncalls + 1, user_id |-> u,
                             idempotency_key |-> k, bucket |-> replay_bucket(clock),
                             variant |-> v]]
             /\ ret' = [ret EXCEPT ![p] =
                            [kind |-> "ActionRecord",
                             action_id |-> r.record.action_id,
                             status |-> r.record.status,
                             lifecycle |-> r.record.lifecycle,
                             result_json |-> r.record.result_json,
                             replayed |-> r.record.replayed]]
    /\ pc' = [pc EXCEPT ![p] = "done"]
    /\ loc' = [loc EXCEPT ![p] = EmptyLoc]
    /\ ncalls' = ncalls + 1
    /\ UNCHANGED <<clock, tokens, policy_events, memvars>>

\* a caller of transition: at most Max calls, with arguments from Args
CallTransition(p, Max, Args) ==
    /\ Free(p)
    /\ ncalls < Max
    /\ \E x \in Args :
         /\ call' = [call EXCEPT ![p] =
                        [op |-> "transition", seq |-> ncalls + 1, action_id |-> x.action_id,
                         next_state |-> x.next_state, carry |-> x.carry]]
         /\ loc' = [loc EXCEPT ![p] =
                        [EmptyLoc EXCEPT !.action_id = x.action_id,
                                         !.site = "direct",
                                         !.next_state = x.next_state,
                                         !.result = x.carry.result,
                                         !.error_code = x.carry.error_code,
                                         !.error_message = x.carry.error_message,
                                         !.began_finished =
                                             /\ x.action_id \in 1..Len(ledger)
                                             /\ ledger[x.action_id].finished_at # NoTime]]
    /\ pc' = [pc EXCEPT ![p] = "t_read"]
    /\ ret' = [ret EXCEPT ![p] = NoRet]
    /\ ncalls' = ncalls + 1
    /\ UNCHANGED <<clock, ledger, tokens, policy_events, handler_calls, executors, memvars>>

ApiTransition(p) == CallTransition(p, MaxCalls, TransitionArgs(ledger))

(***************************************************************************)
(* ActionLifecycleService.transition, as two statements on the connection: *)
(* the SELECT (autocommit) and, after the validation, the UPDATE.          *)
(***************************************************************************)
\* variant: the result carries the lifecycle list of the record as it is now
lifecycle_error_result_reread(l) ==
    Result("failed", NoData, Err("lifecycle_error", "LifecycleError"),
           ledger[l.action_id].lifecycle, l.action_id)

\* executor.py:163-170: a LifecycleError inside execute
lifecycle_error_result(l) ==
    Result("failed", NoData, Err("lifecycle_error", "LifecycleError"), l.lifecycle, l.action_id)

TransitionRead(p) ==
    /\ pc[p] = "t_read"
    /\ IF transition_rejects(ledger, loc[p].action_id, loc[p].next_state)
       THEN /\ ret' = [ret EXCEPT ![p] =
                          IF loc[p].site = "direct"
                          THEN [kind |-> "LifecycleError"]
                          ELSE lifecycle_error_result(loc[p])]
            /\ pc' = [pc EXCEPT ![p] = "done"]
            /\ loc' = [loc EXCEPT ![p] = returned(loc[p])]
       ELSE /\ loc' = [loc EXCEPT ![p].row_status = ledger[loc[p].action_id].status,
                                  ![p].row_lifecycle =
                                      appended(ledger[loc[p].action_id].lifecycle,
                                               loc[p].next_state),
                                  ![p].now = clock]
            /\ pc' = [pc EXCEPT ![p] = "t_write"]
            /\ ret' = ret
    /\ UNCHANGED <<clock, ledger, tokens, policy_events, handler_calls, executors, call, ncalls, memvars>>

\* variant: after awaiting_confirmation every call goes on to the policy
pc_after_unconfirmed_to_policy(site, ctx) ==
    CASE site = "direct" -> "done"
      [] site = "await" -> "e_policy"
      [] site = "notconf" -> "done"
      [] site = "policy" -> "done"
      [] site = "hook" -> "e_after"
      [] site = "exec" -> "e_handler"
      [] site = "exc" -> "e_after"
      [] site = "result" -> "e_after"

\* where execute goes after a transition returned, by call site
pc_after(site, ctx) ==
    CASE site = "direct" -> "done"
      [] site = "await" -> IF ctx.user_confirmed THEN "e_policy" ELSE "t_read"
      [] site = "notconf" -> "done"
      [] site = "policy" -> "done"
      [] site = "hook" -> "e_after"
      [] site = "exec" -> "e_handler"
      [] site = "exc" -> "e_after"
      [] site = "result" -> "e_after"

\* variant: the outcome handed to the post-hooks after a handler exception
\* is the one of a denial
loc_after_exc_as_blocked(l, ctx) ==
    LET l1 == [l EXCEPT !.lifecycle = l.row_lifecycle]
    IN  CASE l.site = "await" ->
               IF ctx.user_confirmed
               THEN [l1 EXCEPT !.current_state = "awaiting_confirmation"]
               ELSE [l1 EXCEPT !.current_state = "awaiting_confirmation",
                               !.site = "notconf", !.next_state = "blocked"]
          [] l.site = "hook" ->
               [l1 EXCEPT !.outcome = [status |-> l.next_state, data |-> NULL,
                                       errors |-> Err(l.hook_code, l.hook_message)]]
          [] l.site = "exc" ->
               [l1 EXCEPT !.outcome = [status |-> "blocked", data |-> NULL,
                                       errors |-> Err(l.hook_code, l.hook_message)]]
          [] OTHER -> l1

loc_after(l, ctx) ==
    LET l1 == [l EXCEPT !.lifecycle = l.row_lifecycle]
    IN  CASE l.site = "await" ->
               IF ctx.user_confirmed
               THEN [l1 EXCEPT !.current_state = "awaiting_confirmation"]
               ELSE [l1 EXCEPT !.current_state = "awaiting_confirmation",
                               !.site = "notconf", !.next_state = "blocked"]
          [] l.site = "hook" ->
               [l1 EXCEPT !.outcome = [status |-> l.next_state, data |-> NULL,
                                       errors |-> Err(l.hook_code, l.hook_message)]]
          [] l.site = "exc" ->
               [l1 EXCEPT !.outcome = [status |-> "failed", data |-> NULL,
                                       errors |-> Err("tool_exception", "exc")]]
          [] OTHER -> l1

ret_after(l) ==
    CASE l.site = "direct" -> [kind |-> "lifecycle", lifecycle |-> l.row_lifecycle]
      [] l.site = "notconf" ->
           Result("blocked", NoData, Err("not_confirmed", "User confirmation required."),
                  l.row_lifecycle, l.action_id)
      [] l.site = "policy" ->
           Result(l.next_state, NoData, Err(l.policy_code, l.policy_message),
                  l.row_lifecycle, l.action_id)
      [] OTHER -> NoRet

TransitionWrite(p) ==
    /\ pc[p] = "t_write"
    /\ ledger' = [ledger EXCEPT ![loc[p].action_id] =
                      transition_update(@, loc[p].row_lifecycle, loc[p].next_state,
                                        loc[p].result, loc[p].error_code,
                                        loc[p].error_message, loc[p].now)]
    /\ pc' = [pc EXCEPT ![p] =
                 pc_after(loc[p].site, IF loc[p].site = "direct"
                                       THEN [user_confirmed |-> TRUE] ELSE call[p].ctx)]
    /\ loc' = [loc EXCEPT ![p] =
                  IF pc'[p] = "done" THEN returned(loc[p])
                  ELSE loc_after(loc[p], IF loc[p].site = "direct"
                                         THEN [user_confirmed |-> TRUE] ELSE call[p].ctx)]
    /\ ret' = [ret EXCEPT ![p] = ret_after(loc[p])]
    /\ UNCHANGED <<clock, tokens, policy_events, handler_calls, executors, call, ncalls, memvars>>

Tick ==
    /\ clock < MaxClock
    /\ clock' = clock + 1
    /\ UNCHANGED <<ledger, tokens, policy_events, handler_calls, executors, pc, call, loc, ret, ncalls, memvars>>

(***************************************************************************)
(* The ledger under direct calls of start and transition                   *)
(***************************************************************************)
\* one lifecycle per status, as earlier requests can have left it
SeedLifecycles ==
    {<<"planned", "awaiting_confirmation">>,
     <<"planned", "executing">>,
     <<"planned", "awaiting_confirmation", "executing", "pending">>,
     <<"planned", "awaiting_confirmation", "executing", "succeeded">>,
     <<"planned", "awaiting_confirmation", "blocked">>}

SeedRow(lifecycle) ==
    [NewRow("u1", "s1", "appointment_book", <<"h1">>, <<"k1">>, NULL, 1)
       EXCEPT !.lifecycle = lifecycle,
              !.status = lifecycle[Len(lifecycle)],
              !.finished_at = finished_stamp(lifecycle[Len(lifecycle)], 1)]

InitLedger ==
    /\ clock = 1
    /\ ledger \in {<<>>} \cup {<<SeedRow(l)>> : l \in SeedLifecycles}
    /\ handler_calls = [i \in 1..Len(ledger) |-> 0]
    /\ executors = [i \in 1..Len(ledger) |-> 0]
    /\ tokens = <<>>
    /\ policy_events = 0
    /\ pc = [p \in Threads |-> "idle"]
    /\ call = [p \in Threads |-> NoCall]
    /\ loc = [p \in Threads |-> EmptyLoc]
    /\ ret = [p \in Threads |-> NoRet]
    /\ ncalls = 0
    /\ NoMemory

NextLedger ==
    \/ \E p \in Threads : ApiStart(p)
    \/ \E p \in Threads : ApiTransition(p)
    \/ \E p \in Threads : TransitionRead(p)
    \/ \E p \in Threads : TransitionWrite(p)
    \/ Tick

SpecLedger == InitLedger /\ [][NextLedger]_vars

(***************************************************************************)
(* One action that is executing, and callers that report its outcome       *)
(***************************************************************************)
RaceStates == {"succeeded", "pending", "failed"}

RaceTransition(p) ==
    CallTransition(p, MaxRaceCalls,
                   {[action_id |-> 1, next_state |-> n, carry |-> NoCarry] : n \in RaceStates})

InitRace ==
    /\ clock = 1
    /\ ledger = <<SeedRow(<<"planned", "executing">>)>>
    /\ handler_calls = <<0>>
    /\ executors = <<0>>
    /\ tokens = <<>>
    /\ policy_events = 0
    /\ pc = [p \in Threads |-> "idle"]
    /\ call = [p \in Threads |-> NoCall]
    /\ loc = [p \in Threads |-> EmptyLoc]
    /\ ret = [p \in Threads |-> NoRet]
    /\ ncalls = 0
    /\ NoMemory

NextRace ==
    \/ \E p \in Threads : RaceTransition(p)
    \/ \E p \in Threads : TransitionRead(p)
    \/ \E p \in Threads : TransitionWrite(p)
    \/ Tick

SpecRace == InitRace /\ [][NextRace]_vars


(***************************************************************************)
(* AgentExecutor.execute, statement by statement                           *)
(***************************************************************************)
Payload(body, key, target, token, hash) ==
    [body |-> body, idempotency_key |-> key, target_user_id |-> target,
     consent_token |-> token, payload_hash |-> hash]

Ctx(user_id, emergency, user_confirmed) ==
    [user_id |-> user_id, session_key |-> "s1", emergency |-> emergency,
     user_confirmed |-> user_confirmed]

\* The requests of this model: the confirmed booking R0 of user u1 for
\* payload b1 under key k1 with token ctk1, and R0 with one thing changed
R0 == [ctx |-> Ctx("u1", FALSE, TRUE), tool_name |-> "appointment_book",
       payload |-> Payload("b1", "k1", NULL, TokenNames[1], NoHash)]

ExecInputs ==
    {R0,
     [R0 EXCEPT !.ctx.user_id = "u2"],
     [R0 EXCEPT !.ctx.user_confirmed = FALSE],
     [R0 EXCEPT !.ctx.emergency = TRUE],
     [R0 EXCEPT !.payload.consent_token = NULL],
     [R0 EXCEPT !.payload.payload_hash = tool_params_hash(R0.payload)],
     [R0 EXCEPT !.payload.body = "b2"],
     [R0 EXCEPT !.payload.body = "b2", !.payload.payload_hash = tool_params_hash(R0.payload)],
     [R0 EXCEPT !.payload.target_user_id = "u2"],
     [R0 EXCEPT !.tool_name = "lab_clinic_discovery", !.payload.consent_token = NULL]}

\* what a tool handler can return: a dict with optional status, data, errors
HandlerOutputs ==
    {[status |-> NULL, data |-> "d1", errors |-> <<>>],
     [status |-> "partial", data |-> "d1", errors |-> <<>>],
     [status |-> "pending", data |-> "d2", errors |-> <<>>],
     [status |-> "expired", data |-> NULL, errors |-> <<>>],
     [status |-> "failed", data |-> NULL, errors |-> Err("tool_error", "m")]}

\* lines 36-63: resolve, hash, key, lifecycle.start, the replay return
ExecStart(p, Inputs) ==
    /\ Free(p)
    /\ ncalls < MaxExecs
    /\ \E in \in Inputs :
         LET tool == resolve(in.tool_name)
             key == idempotency_key_of(in.ctx, tool.name, in.payload)
             r == start(ledger, in.ctx.user_id, in.ctx.session_key, tool.name,
                        canonical_payload_hash(in.payload), key,
                        in.payload.consent_token, clock)
             action == r.record
         IN  /\ in.tool_name \in registered_tools
             /\ ledger' = r.ledger
             /\ handler_calls' = IF Len(r.ledger) > Len(ledger)
                                 THEN Append(handler_calls, 0) ELSE handler_calls
             /\ executors' =
                    LET e == IF Len(r.ledger) > Len(ledger) THEN Append(executors, 0)
                             ELSE executors
                    IN  IF is_terminal_replay(action) THEN e
                        ELSE [e EXCEPT ![action.action_id] = @ + 1]
             /\ call' = [call EXCEPT ![p] =
                            [op |-> "execute", seq |-> ncalls + 1, ctx |-> in.ctx,
                             tool |-> tool,
                             payload |-> in.payload, idempotency_key |-> key,
                             bucket |-> replay_bucket(clock)]]
             /\ IF is_terminal_replay(action)
                THEN /\ ret' = [ret EXCEPT ![p] = replay_result(action, key)]
                     /\ pc' = [pc EXCEPT ![p] = "done"]
                     /\ loc' = [loc EXCEPT ![p] =
                                   [EmptyLoc EXCEPT !.action_id = action.action_id,
                                                    !.replayed = action.replayed]]
                ELSE /\ ret' = [ret EXCEPT ![p] = NoRet]
                     /\ pc' = [pc EXCEPT ![p] = IF tool.transactional THEN "t_read" ELSE "e_policy"]
                     /\ loc' = [loc EXCEPT ![p] =
                                   [EmptyLoc EXCEPT !.action_id = action.action_id,
                                                    !.lifecycle = action.lifecycle,
                                                    !.current_state = action.status,
                                                    !.replayed = action.replayed,
                                                    !.site = IF tool.transactional
                                                             THEN "await" ELSE NULL,
                                                    !.next_state = IF tool.transactional
                                                                   THEN "awaiting_confirmation"
                                                                   ELSE NULL]]
    /\ ncalls' = ncalls + 1
    /\ UNCHANGED <<clock, tokens, policy_events, memvars>>

\* lines 79-89
ExecPolicy(p) ==
    /\ pc[p] = "e_policy"
    /\ LET policy_decision == evaluate(call[p].ctx, call[p].tool, call[p].payload)
           l == [loc[p] EXCEPT !.policy_code = policy_decision.code,
                               !.policy_message = policy_decision.message]
       IN  IF ~policy_decision.allowed
           THEN /\ loc' = [loc EXCEPT ![p] =
                              [l EXCEPT !.site = "policy",
                                        !.next_state = denied_state(l.current_state)]]
                /\ pc' = [pc EXCEPT ![p] = "t_read"]
           ELSE /\ loc' = [loc EXCEPT ![p] = l]
                /\ pc' = [pc EXCEPT ![p] = "e_before"]
    /\ UNCHANGED <<clock, ledger, tokens, policy_events, handler_calls, executors, call, ret, ncalls, memvars>>

\* the consent_tokens row the pre-hook's validation looked at, <<>> if none
token_row_seen(T, payload) ==
    IF payload.consent_token = NULL \/ get_consent_token(T, payload.consent_token) = {}
    THEN <<>>
    ELSE <<T[CHOOSE i \in get_consent_token(T, payload.consent_token) : TRUE]>>

\* lines 91-111
ExecBeforeWith(p, hooks) ==
    /\ pc[p] = "e_before"
    /\ LET ran == run_before(hooks, call[p].ctx, call[p].tool, call[p].payload, tokens, clock)
           hook_decision == ran.decision
           l == [loc[p] EXCEPT !.hook_code = hook_decision.code,
                               !.hook_message = hook_decision.message,
                               !.token_row = token_row_seen(tokens, call[p].payload),
                               !.checked_at = clock]
       IN  IF ~hook_decision.allowed
           THEN /\ loc' = [loc EXCEPT ![p] =
                              [l EXCEPT !.site = "hook",
                                        !.next_state = denied_state(l.current_state)]]
                /\ pc' = [pc EXCEPT ![p] = "t_read"]
           ELSE IF l.current_state \in {"planned", "awaiting_confirmation"}
           THEN /\ loc' = [loc EXCEPT ![p] = [l EXCEPT !.site = "exec", !.next_state = "executing"]]
                /\ pc' = [pc EXCEPT ![p] = "t_read"]
           ELSE /\ loc' = [loc EXCEPT ![p] = l]
                /\ pc' = [pc EXCEPT ![p] = "e_handler"]
    /\ UNCHANGED <<clock, ledger, tokens, policy_events, handler_calls, executors, call, ret, ncalls, memvars>>

\* the executor of CarePilotApp: its HookRunner holds _before_tool_call
ExecBefore(p) == ExecBeforeWith(p, before_hooks)

\* lines 113-148: the handler runs and returns
ExecHandlerReturns(p, Outputs) ==
    /\ pc[p] = "e_handler"
    /\ \E tool_output \in Outputs :
         loc' = [loc EXCEPT ![p] =
                    [loc[p] EXCEPT
                        !.handler_runs = @ + 1,
                        !.tool_output = <<tool_output>>,
                        !.site = "result",
                        !.next_state = result_state_of(tool_output),
                        !.result = tool_output.data,
                        !.error_code = IF tool_output.errors # <<>>
                                       THEN tool_output.errors[1].code ELSE NULL,
                        !.error_message = IF tool_output.errors # <<>>
                                          THEN tool_output.errors[1].message ELSE NULL,
                        !.outcome = [status |-> result_state_of(tool_output),
                                     data |-> tool_output.data,
                                     errors |-> tool_output.errors]]]
    /\ handler_calls' = [handler_calls EXCEPT ![loc[p].action_id] = @ + 1]
    /\ pc' = [pc EXCEPT ![p] = "t_read"]
    /\ UNCHANGED <<clock, ledger, tokens, policy_events, executors, call, ret, ncalls, memvars>>

\* lines 113-121: the handler runs and raises
ExecHandlerRaises(p) ==
    /\ pc[p] = "e_handler"
    /\ loc' = [loc EXCEPT ![p] =
                  [loc[p] EXCEPT !.handler_runs = @ + 1,
                                 !.site = "exc",
                                 !.next_state = "failed",
                                 !.result = NULL,
                                 !.error_code = "tool_exception",
                                 !.error_message = "exc"]]
    /\ handler_calls' = [handler_calls EXCEPT ![loc[p].action_id] = @ + 1]
    /\ pc' = [pc EXCEPT ![p] = "t_read"]
    /\ UNCHANGED <<clock, ledger, tokens, policy_events, executors, call, ret, ncalls, memvars>>

\* lines 101-108, 128-135, 155-162: run_after, then return
ExecAfterWith(p, hooks, Failing) ==
    /\ pc[p] = "e_after"
    /\ \E failing \in Failing :
         LET st == run_after(hooks, failing, call[p].tool, call[p].payload, loc[p].outcome,
                             tokens, policy_events, clock)
         IN  /\ policy_events' = st.policy_events
             /\ tokens' = st.tokens
             /\ loc' = [loc EXCEPT ![p] =
                           returned([loc[p] EXCEPT !.after_runs = @ + 1,
                                                   !.after_invoked = st.invoked])]
             /\ ret' = [ret EXCEPT ![p] =
                           IF st.raised THEN [kind |-> "Exception"]
                           ELSE Result(loc[p].outcome.status,
                                       Data(loc[p].outcome.data, FALSE, <<>>),
                                       loc[p].outcome.errors, loc[p].lifecycle,
                                       loc[p].action_id)]
    /\ pc' = [pc EXCEPT ![p] = "done"]
    /\ UNCHANGED <<clock, ledger, handler_calls, executors, call, ncalls, memvars>>

\* the executor of CarePilotApp: its HookRunner holds _after_tool_call, which
\* is taken not to raise
ExecAfter(p) == ExecAfterWith(p, after_hooks, {{}})

\* MemoryService.issue_consent_token: the grants of this model, all for the
\* sanitized payload of R0
IssueInputs ==
    {[user_id |-> "u1", action_type |-> "appointment_book",
      payload_hash |-> tool_params_hash(R0.payload), expires_in |-> 3],
     [user_id |-> "u2", action_type |-> "appointment_book",
      payload_hash |-> tool_params_hash(R0.payload), expires_in |-> 3],
     [user_id |-> "u1", action_type |-> "appointment_book",
      payload_hash |-> tool_params_hash(R0.payload), expires_in |-> 0],
     [user_id |-> "u1", action_type |-> "medical_purchase",
      payload_hash |-> tool_params_hash(R0.payload), expires_in |-> 3]}

\* the consent_tokens table as earlier requests can have left it: empty, or
\* one grant of IssueInputs issued at tick 1, possibly used since
SeedTokens ==
    {<<>>}
    \cup {<<NewToken(TokenNames[1], in.user_id, in.action_type, in.payload_hash,
                     in.expires_in, 1)>> : in \in IssueInputs}
    \cup {mark_consent_token_used(
              <<NewToken(TokenNames[1], "u1", "appointment_book",
                         tool_params_hash(R0.payload), 3, 1)>>, TokenNames[1], 1)}

Init ==
    /\ clock = 1
    /\ ledger = <<>>
    /\ handler_calls = <<>>
    /\ executors = <<>>
    /\ tokens \in SeedTokens
    /\ policy_events = 0
    /\ pc = [p \in Threads |-> "idle"]
    /\ call = [p \in Threads |-> NoCall]
    /\ loc = [p \in Threads |-> EmptyLoc]
    /\ ret = [p \in Threads |-> NoRet]
    /\ ncalls = 0
    /\ NoMemory

Next ==
    \/ \E p \in Threads : ExecStart(p, ExecInputs)
    \/ \E p \in Threads : TransitionRead(p)
    \/ \E p \in Threads : TransitionWrite(p)
    \/ \E p \in Threads : ExecPolicy(p)
    \/ \E p \in Threads : ExecBefore(p)
    \/ \E p \in Threads : ExecHandlerReturns(p, HandlerOutputs)
    \/ \E p \in Threads : ExecHandlerRaises(p)
    \/ \E p \in Threads : ExecAfter(p)
    \/ Tick

Spec == Init /\ [][Next]_vars

(***************************************************************************)
(* execute at the consent gate: the booking R0 confirmed, unconfirmed, in  *)
(* an emergency and without a token, against every seeded token table      *)
(***************************************************************************)
ConsentInputs ==
    {R0,
     [R0 EXCEPT !.ctx.user_confirmed = FALSE],
     [R0 EXCEPT !.ctx.emergency = TRUE],
     [R0 EXCEPT !.payload.consent_token = NULL]}

\* a handler that books
Booked == {[status |-> NULL, data |-> "d1", errors |-> <<>>]}

NextConsent ==
    \/ \E p \in Threads : ExecStart(p, ConsentInputs)
    \/ \E p \in Threads : TransitionRead(p)
    \/ \E p \in Threads : TransitionWrite(p)
    \/ \E p \in Threads : ExecPolicy(p)
    \/ \E p \in Threads : ExecBefore(p)
    \/ \E p \in Threads : ExecHandlerReturns(p, Booked)
    \/ \E p \in Threads : ExecAfter(p)
    \/ Tick

SpecConsent == Init /\ [][NextConsent]_vars

(***************************************************************************)
(* execute with a token granted for another payload: the booking R0 and    *)
(* the booking of b2, with and without a payload_hash of its own           *)
(***************************************************************************)
BindingInputs ==
    {R0,
     [R0 EXCEPT !.payload.body = "b2"],
     [R0 EXCEPT !.payload.body = "b2", !.payload.payload_hash = tool_params_hash(R0.payload)]}

NextBinding ==
    \/ \E p \in Threads : ExecStart(p, BindingInputs)
    \/ \E p \in Threads : TransitionRead(p)
    \/ \E p \in Threads : TransitionWrite(p)
    \/ \E p \in Threads : ExecPolicy(p)
    \/ \E p \in Threads : ExecBefore(p)
    \/ \E p \in Threads : ExecHandlerReturns(p, Booked)
    \/ \E p \in Threads : ExecAfter(p)
    \/ Tick

SpecBinding == Init /\ [][NextBinding]_vars

(***************************************************************************)
(* execute repeated: the booking R0, with its token and without, under     *)
(* every outcome of the handler                                            *)
(***************************************************************************)
ReplayInputs == {R0, [R0 EXCEPT !.payload.consent_token = NULL]}

InitReplay ==
    /\ clock = 1
    /\ ledger = <<>>
    /\ handler_calls = <<>>
    /\ executors = <<>>
    /\ tokens = <<NewToken(TokenNames[1], "u1", "appointment_book",
                           tool_params_hash(R0.payload), 3, 1)>>
    /\ policy_events = 0
    /\ pc = [p \in Threads |-> "idle"]
    /\ call = [p \in Threads |-> NoCall]
    /\ loc = [p \in Threads |-> EmptyLoc]
    /\ ret = [p \in Threads |-> NoRet]
    /\ ncalls = 0
    /\ NoMemory

NextReplay ==
    \/ \E p \in Threads : ExecStart(p, ReplayInputs)
    \/ \E p \in Threads : TransitionRead(p)
    \/ \E p \in Threads : TransitionWrite(p)
    \/ \E p \in Threads : ExecPolicy(p)
    \/ \E p \in Threads : ExecBefore(p)
    \/ \E p \in Threads : ExecHandlerReturns(p, HandlerOutputs)
    \/ \E p \in Threads : ExecHandlerRaises(p)
    \/ \E p \in Threads : ExecAfter(p)
    \/ Tick

SpecReplay == InitReplay /\ [][NextReplay]_vars


(***************************************************************************)
(* execute presenting one token for several actions: the booking without   *)
(* an explicit key, from two sessions and in several clock hours           *)
(***************************************************************************)
\* an initial state with empty ledger whose consent_tokens table is one of Ts
InitTokens(Ts) ==
    /\ clock = 1
    /\ ledger = <<>>
    /\ handler_calls = <<>>
    /\ executors = <<>>
    /\ tokens \in Ts
    /\ policy_events = 0
    /\ pc = [p \in Threads |-> "idle"]
    /\ call = [p \in Threads |-> NoCall]
    /\ loc = [p \in Threads |-> EmptyLoc]
    /\ ret = [p \in Threads |-> NoRet]
    /\ ncalls = 0
    /\ NoMemory

\* R0 without an explicit idempotency key: the key is the default one
R1 == [R0 EXCEPT !.payload.idempotency_key = NULL]

ReuseInputs == {R1, [R1 EXCEPT !.ctx.session_key = "s2"]}

\* one grant, for the sanitized payload of R1
ReuseTokens ==
    {<<NewToken(TokenNames[1], "u1", "appointment_book", tool_params_hash(R1.payload), 3, 1)>>}

\* a handler that books or leaves the booking pending
BookedOrPending ==
    {[status |-> NULL, data |-> "d1", errors |-> <<>>],
     [status |-> "pending", data |-> "d2", errors |-> <<>>]}

NextReuse ==
    \/ \E p \in Threads : ExecStart(p, ReuseInputs)
    \/ \E p \in Threads : TransitionRead(p)
    \/ \E p \in Threads : TransitionWrite(p)
    \/ \E p \in Threads : ExecPolicy(p)
    \/ \E p \in Threads : ExecBefore(p)
    \/ \E p \in Threads : ExecHandlerReturns(p, BookedOrPending)
    \/ \E p \in Threads : ExecAfter(p)
    \/ Tick

SpecReuse == InitTokens(ReuseTokens) /\ [][NextReuse]_vars

(***************************************************************************)
(* execute of the booking R0 under every kind of outcome: each handler     *)
(* output, a raising handler, no confirmation, an emergency, and a caller  *)
(* the token was not issued to; all within one clock hour                  *)
(***************************************************************************)
OutcomeInputs ==
    {R0,
     [R0 EXCEPT !.ctx.user_confirmed = FALSE],
     [R0 EXCEPT !.ctx.emergency = TRUE],
     [R0 EXCEPT !.ctx.user_id = "u2"]}

\* one grant, to u1 for the sanitized payload of R0
OutcomeTokens ==
    {<<NewToken(TokenNames[1], "u1", "appointment_book", tool_params_hash(R0.payload), 3, 1)>>}

NextOutcome ==
    \/ \E p \in Threads : ExecStart(p, OutcomeInputs)
    \/ \E p \in Threads : TransitionRead(p)
    \/ \E p \in Threads : TransitionWrite(p)
    \/ \E p \in Threads : ExecPolicy(p)
    \/ \E p \in Threads : ExecBefore(p)
    \/ \E p \in Threads : ExecHandlerReturns(p, HandlerOutputs)
    \/ \E p \in Threads : ExecHandlerRaises(p)
    \/ \E p \in Threads : ExecAfter(p)

SpecOutcome == InitTokens(OutcomeTokens) /\ [][NextOutcome]_vars

(***************************************************************************)
(* execute of the booking R0 in an emergency context: confirmed, not       *)
(* confirmed, and for another user; and outside an emergency               *)
(***************************************************************************)
EmergencyInputs ==
    {R0,
     [R0 EXCEPT !.ctx.emergency = TRUE],
     [R0 EXCEPT !.ctx.emergency = TRUE, !.ctx.user_confirmed = FALSE],
     [R0 EXCEPT !.ctx.emergency = TRUE, !.payload.target_user_id = "u2"]}

NextEmergency ==
    \/ \E p \in Threads : ExecStart(p, EmergencyInputs)
    \/ \E p \in Threads : TransitionRead(p)
    \/ \E p \in Threads : TransitionWrite(p)
    \/ \E p \in Threads : ExecPolicy(p)
    \/ \E p \in Threads : ExecBefore(p)
    \/ \E p \in Threads : ExecHandlerReturns(p, Booked)
    \/ \E p \in Threads : ExecAfter(p)
    \/ Tick

SpecEmergency == InitTokens(OutcomeTokens) /\ [][NextEmergency]_vars

(***************************************************************************)
(* an executor whose HookRunner holds _before_tool_call and denying_hook:  *)
(* a clinic search and a booking, each with an allowed and a denied body   *)
(***************************************************************************)
hooks_with_denying == <<"_before_tool_call", "denying_hook">>

\* the clinic search: a tool that is not transactional
L0 == [R0 EXCEPT !.tool_name = "lab_clinic_discovery", !.payload.consent_token = NULL]

\* the booking of b2 under its own key
R2 == [R0 EXCEPT !.payload.body = "b2", !.payload.idempotency_key = "k2"]

HookInputs == {L0, [L0 EXCEPT !.payload.body = "b2"], R2}

\* one grant, for the sanitized payload of R2
HookTokens ==
    {<<NewToken(TokenNames[1], "u1", "appointment_book", tool_params_hash(R2.payload), 3, 1)>>}

NextHooks ==
    \/ \E p \in Threads : ExecStart(p, HookInputs)
    \/ \E p \in Threads : TransitionRead(p)
    \/ \E p \in Threads : TransitionWrite(p)
    \/ \E p \in Threads : ExecPolicy(p)
    \/ \E p \in Threads : ExecBeforeWith(p, hooks_with_denying)
    \/ \E p \in Threads : ExecHandlerReturns(p, BookedOrPending)
    \/ \E p \in Threads : ExecAfter(p)
    \/ Tick

SpecHooks == InitTokens(HookTokens) /\ [][NextHooks]_vars

\* ClinicalStore.upsert_entity, entity_type symptom_state: the table after
\* INSERT ... ON CONFLICT(id) DO UPDATE
upsert_symptom_state(S, entity_id, user_id, payload, now) ==
    LET last_confirmed_at == IF payload.last_confirmed_at # <<>>
                             THEN payload.last_confirmed_at ELSE to_iso(now)
        reconfirm_due_at == to_iso(now + hours(48))
        hit == {i \in 1..Len(S) : S[i].id = entity_id}
    IN  IF hit = {}
        THEN Append(S, [id |-> entity_id, user_id |-> user_id, status |-> payload.status,
                        last_confirmed_at |-> last_confirmed_at,
                        reconfirm_due_at |-> reconfirm_due_at,
                        updated_at |-> to_iso(now)])
        ELSE [i \in 1..Len(S) |->
                IF i \in hit
                THEN [S[i] EXCEPT !.status = payload.status,
                                  !.last_confirmed_at = last_confirmed_at,
                                  !.reconfirm_due_at = reconfirm_due_at,
                                  !.updated_at = to_iso(now)]
                ELSE S[i]]

\* ClinicalStore.upsert_entity, entity_type inference
upsert_inference(I, entity_id, user_id, payload, now) ==
    LET max_expiry == now + hours(24)
        requested_expiry == parse_iso(payload.expires_at)
        expires_at == IF ~parses(payload.expires_at) THEN to_iso(max_expiry)
                      ELSE IF requested_expiry <= max_expiry THEN to_iso(requested_expiry)
                      ELSE to_iso(max_expiry)
        hit == {i \in 1..Len(I) : I[i].id = entity_id}
    IN  IF hit = {}
        THEN Append(I, [id |-> entity_id, user_id |-> user_id, status |-> payload.status,
                        expires_at |-> expires_at, updated_at |-> to_iso(now)])
        ELSE [i \in 1..Len(I) |->
                IF i \in hit
                THEN [I[i] EXCEPT !.status = payload.status, !.expires_at = expires_at,
                                  !.updated_at = to_iso(now)]
                ELSE I[i]]

(***************************************************************************)
(* The clinical memory under sweeps and writes                             *)
(***************************************************************************)
MaxSweeps == 2

\* MemoryService.apply_temporal(user_id): one sweep in one connection
ApplyTemporal(user_id) ==
    LET r == apply(symptom_states, inferences, health_signals, user_id, clock)
        again == sweep.streak > 0 /\ sweep.user_id = user_id /\ sweep.now = clock
    IN  /\ again => sweep.streak < MaxSweeps
        /\ symptom_states' = r.symptom_states
        /\ inferences' = r.inferences
        /\ health_signals' = r.health_signals
        /\ sweep' = [user_id |-> user_id, now |-> clock,
                     streak |-> IF again THEN sweep.streak + 1 ELSE 1,
                     result |-> <<r.result>>]
        /\ UNCHANGED <<clock, ledger, tokens, policy_events, handler_calls, executors, pc, call,
                       loc, ret, ncalls>>

\* a symptom report without last_confirmed_at, for an id in the table or new
UpsertSymptomState ==
    /\ \E entity_id \in {"s1", "s3"},
          payload \in {[status |-> "active", last_confirmed_at |-> <<>>]} :
         symptom_states' = upsert_symptom_state(symptom_states, entity_id, "u1", payload, clock)
    /\ symptom_states' # symptom_states
    /\ sweep' = [sweep EXCEPT !.streak = 0]
    /\ UNCHANGED <<clock, ledger, tokens, policy_events, handler_calls, executors, pc, call,
                   loc, ret, ncalls, inferences, health_signals>>

\* an inference written without and with a requested expiry, with the
\* default status and with a status given by the caller
UpsertInference ==
    /\ \E payload \in {[status |-> "active", expires_at |-> <<>>],
                        [status |-> "active", expires_at |-> <<2>>],
                        [status |-> "expired", expires_at |-> <<2>>]} :
         inferences' = upsert_inference(inferences, "i1", "u1", payload, clock)
    /\ inferences' # inferences
    /\ sweep' = [sweep EXCEPT !.streak = 0]
    /\ UNCHANGED <<clock, ledger, tokens, policy_events, handler_calls, executors, pc, call,
                   loc, ret, ncalls, symptom_states, health_signals>>

\* rows the tables can hold when the model starts: a symptom report of u1
\* of each age class, and one of u2
SymptomSeeds ==
    {[id |-> "s1", user_id |-> "u1", status |-> "active", last_confirmed_at |-> t,
      reconfirm_due_at |-> <<>>, updated_at |-> <<0>>] :
        t \in {<<>>, <<0>>, <<1 - hours(RECONFIRM_HOURS) + 1>>,
               <<1 - days(AUTO_RESOLVE_DAYS) + 1>>, <<1 - days(AUTO_RESOLVE_DAYS) - 1>>}}
    \cup {[id |-> "s1", user_id |-> "u1", status |-> "resolved",
           last_confirmed_at |-> <<1 - days(AUTO_RESOLVE_DAYS) - 1>>,
           reconfirm_due_at |-> <<>>, updated_at |-> <<0>>]}

InferenceSeeds ==
    {[id |-> "i1", user_id |-> "u1", status |-> "active", expires_at |-> <<t>>,
      updated_at |-> <<0>>] : t \in {1, 2, 5}}
    \cup {[id |-> "i1", user_id |-> "u1", status |-> "expired", expires_at |-> <<1>>,
           updated_at |-> <<0>>]}

SignalSeeds ==
    {[id |-> "h1", user_id |-> "u1", stale |-> 0, stale_after |-> <<t>>,
      updated_at |-> <<0>>] : t \in {1, 2, 5}}
    \cup {[id |-> "h1", user_id |-> "u1", stale |-> 1, stale_after |-> <<1>>,
           updated_at |-> <<0>>]}

InitSweep ==
    /\ clock = 1
    /\ ledger = <<>>
    /\ handler_calls = <<>>
    /\ executors = <<>>
    /\ tokens = <<>>
    /\ policy_events = 0
    /\ pc = [p \in Threads |-> "idle"]
    /\ call = [p \in Threads |-> NoCall]
    /\ loc = [p \in Threads |-> EmptyLoc]
    /\ ret = [p \in Threads |-> NoRet]
    /\ ncalls = 0
    /\ \E s \in SymptomSeeds :
         symptom_states =
            <<s, [id |-> "s2", user_id |-> "u2", status |-> "active",
                  last_confirmed_at |-> <<1 - days(AUTO_RESOLVE_DAYS) - 1>>,
                  reconfirm_due_at |-> <<>>, updated_at |-> <<0>>]>>
    /\ \E i \in InferenceSeeds :
         inferences =
            <<i, [id |-> "i2", user_id |-> "u2", status |-> "active", expires_at |-> <<1>>,
                  updated_at |-> <<0>>]>>
    /\ \E h \in SignalSeeds :
         health_signals =
            <<h, [id |-> "h2", user_id |-> "u2", stale |-> 0, stale_after |-> <<1>>,
                  updated_at |-> <<0>>]>>
    /\ sweep = NoSweep

NextSweep ==
    \/ \E user_id \in Users : ApplyTemporal(user_id)
    \/ UpsertSymptomState
    \/ UpsertInference
    \/ Tick

SpecSweep == InitSweep /\ [][NextSweep]_vars

(***************************************************************************)
(* an executor whose HookRunner holds a post-hook that can raise, then     *)
(* _after_tool_call                                                        *)
(***************************************************************************)
hooks_with_audit == <<"audit_hook", "_after_tool_call">>

NextAfter ==
    \/ \E p \in Threads : ExecStart(p, ReplayInputs)
    \/ \E p \in Threads : TransitionRead(p)
    \/ \E p \in Threads : TransitionWrite(p)
    \/ \E p \in Threads : ExecPolicy(p)
    \/ \E p \in Threads : ExecBefore(p)
    \/ \E p \in Threads : ExecHandlerReturns(p, Booked)
    \/ \E p \in Threads : ExecHandlerRaises(p)
    \/ \E p \in Threads : ExecAfterWith(p, hooks_with_audit, {{}, {"audit_hook"}})
    \/ Tick

SpecAfter == InitTokens(OutcomeTokens) /\ [][NextAfter]_vars

(***************************************************************************)
(* PolicyEngine.evaluate called on its own, with the engine CarePilotApp   *)
(* builds: a tool outside the allow-list, a transactional and a plain      *)
(* tool, in and out of an emergency, with and without a target user        *)
(***************************************************************************)
PolicyInputs ==
    {[ctx |-> Ctx(u, e, TRUE), tool |-> [name |-> n, transactional |-> n \in transactional_tools],
      payload |-> Payload("b1", "k1", t, NULL, NoHash)] :
        u \in Users, e \in BOOLEAN, t \in {NULL} \cup Users,
        n \in {"web_search", "appointment_book", "lab_clinic_discovery"}}

\* one call of PolicyEngine.evaluate(ctx, tool, payload)
PolicyEvaluate(p) ==
    /\ Free(p)
    /\ ncalls < MaxCalls
    /\ \E in \in PolicyInputs :
         /\ call' = [call EXCEPT ![p] =
                        [op |-> "evaluate", seq |-> ncalls + 1, ctx |-> in.ctx,
                         tool |-> in.tool, payload |-> in.payload]]
         /\ ret' = [ret EXCEPT ![p] =
                       [kind |-> "PolicyDecision"] @@ evaluate(in.ctx, in.tool, in.payload)]
    /\ pc' = [pc EXCEPT ![p] = "done"]
    /\ loc' = [loc EXCEPT ![p] = EmptyLoc]
    /\ ncalls' = ncalls + 1
    /\ UNCHANGED <<clock, ledger, tokens, policy_events, handler_calls, executors, memvars>>

NextPolicy == \E p \in Threads : PolicyEvaluate(p)

SpecPolicy == InitTokens(OutcomeTokens) /\ [][NextPolicy]_vars

(***************************************************************************)
(* MemoryService.validate_consent_token called on its own, with and        *)
(* without consume, against every seeded token table.  The SELECT of       *)
(* get_consent_token and the UPDATE of mark_consent_token_used run on      *)
(* connections of their own: two steps.                                    *)
(***************************************************************************)
\* variant: consume is ignored
consumes_never(consume) == FALSE

\* service.py:151: if consume
consumes(consume) == consume

\* the arguments of the calls: the holder of the grant and another user,
\* the granted action and another, the granted payload and another, the
\* issued token and one that was never issued
ValidateInputs ==
    {[user_id |-> u, action_type |-> a, payload_hash |-> tool_params_hash(pl),
      token |-> t, consume |-> c] :
        u \in Users, a \in {"appointment_book", "medical_purchase"},
        pl \in {R0.payload, R2.payload}, t \in {TokenNames[1], TokenNames[2]},
        c \in BOOLEAN}

\* lines 137-153 up to the consume step
ValidateConsentToken(p) ==
    /\ Free(p)
    /\ ncalls < MaxCalls
    /\ \E in \in ValidateInputs :
         LET v == validate_consent_token(tokens, in.user_id, in.action_type, in.payload_hash,
                                         in.token, clock)
         IN  /\ call' = [call EXCEPT ![p] = [op |-> "validate", seq |-> ncalls + 1] @@ in]
             /\ IF v.ok /\ consumes(in.consume)
                THEN /\ pc' = [pc EXCEPT ![p] = "v_mark"]
                     /\ ret' = [ret EXCEPT ![p] = NoRet]
                ELSE /\ pc' = [pc EXCEPT ![p] = "done"]
                     /\ ret' = [ret EXCEPT ![p] = [kind |-> "validate"] @@ v]
    /\ loc' = [loc EXCEPT ![p] = EmptyLoc]
    /\ ncalls' = ncalls + 1
    /\ UNCHANGED <<clock, ledger, tokens, policy_events, handler_calls, executors, memvars>>

\* lines 151-153: mark_consent_token_used, return True, "ok"
ValidateMark(p) ==
    /\ pc[p] = "v_mark"
    /\ tokens' = mark_consent_token_used(tokens, call[p].token, clock)
    /\ pc' = [pc EXCEPT ![p] = "done"]
    /\ ret' = [ret EXCEPT ![p] = [kind |-> "validate", ok |-> TRUE, reason |-> "ok"]]
    /\ UNCHANGED <<clock, ledger, policy_events, handler_calls, executors, call, loc, ncalls,
                   memvars>>

NextValidate ==
    \/ \E p \in Threads : ValidateConsentToken(p)
    \/ \E p \in Threads : ValidateMark(p)
    \/ Tick

SpecValidate == Init /\ [][NextValidate]_vars

(***************************************************************************)
(* execute with a handler that returns normally, declaring every status:   *)
(* the booking R0 and the clinic search under a key of its own             *)
(***************************************************************************)
ResultInputs == {R0, [L0 EXCEPT !.payload.idempotency_key = "k2"]}

\* the dicts a handler can return: no status key, each of the six statuses,
\* and a status execute does not know; data is absent when nothing was done
DeclaredOutputs ==
    {[status |-> s, data |-> "d1", errors |-> <<>>] :
        s \in {NULL, "succeeded", "partial", "pending", "done"}}
    \cup {[status |-> s, data |-> NULL, errors |-> Err("tool_error", "m")] :
        s \in {"failed", "blocked", "expired"}}

NextResult ==
    \/ \E p \in Threads : ExecStart(p, ResultInputs)
    \/ \E p \in Threads : TransitionRead(p)
    \/ \E p \in Threads : TransitionWrite(p)
    \/ \E p \in Threads : ExecPolicy(p)
    \/ \E p \in Threads : ExecBefore(p)
    \/ \E p \in Threads : ExecHandlerReturns(p, DeclaredOutputs)
    \/ \E p \in Threads : ExecAfter(p)

SpecResult == InitTokens(OutcomeTokens) /\ [][NextResult]_vars

(***************************************************************************)
(* execute denied by the policy in each state of the action: the clinic    *)
(* search, the same search and a booking naming another user               *)
(***************************************************************************)
DenialInputs ==
    {L0, [L0 EXCEPT !.payload.target_user_id = "u2"],
     [R2 EXCEPT !.payload.target_user_id = "u2"]}

NextDenial ==
    \/ \E p \in Threads : ExecStart(p, DenialInputs)
    \/ \E p \in Threads : TransitionRead(p)
    \/ \E p \in Threads : TransitionWrite(p)
    \/ \E p \in Threads : ExecPolicy(p)
    \/ \E p \in Threads : ExecBefore(p)
    \/ \E p \in Threads : ExecHandlerReturns(p, BookedOrPending)
    \/ \E p \in Threads : ExecAfter(p)

SpecDenial == InitTokens(HookTokens) /\ [][NextDenial]_vars

(***************************************************************************)
(* HookRunner.run_before called directly, on runners with no pre-hook,     *)
(* one, and two in either order of registration                            *)
(***************************************************************************)
\* HookRunner._before_hooks after the add_before calls of an embedding
RegisteredHooks ==
    {<<>>, <<"_before_tool_call">>, <<"_before_tool_call", "denying_hook">>,
     <<"denying_hook", "_before_tool_call">>}

\* the clinic search and the booking of b1 and of b2, with the token of
\* the booking of b2 and without a token
BeforeInputs ==
    HookInputs \cup {[R2 EXCEPT !.payload.consent_token = NULL],
                     [R0 EXCEPT !.payload.consent_token = NULL]}

RunBefore(p) ==
    /\ Free(p)
    /\ ncalls < MaxCalls
    /\ \E hooks \in RegisteredHooks, in \in BeforeInputs :
         LET ran == run_before(hooks, in.ctx, resolve(in.tool_name), in.payload, tokens, clock)
         IN  /\ call' = [call EXCEPT ![p] =
                            [op |-> "run_before", seq |-> ncalls + 1, hooks |-> hooks,
                             ctx |-> in.ctx, tool |-> resolve(in.tool_name),
                             payload |-> in.payload]]
             /\ ret' = [ret EXCEPT ![p] =
                            [kind |-> "HookDecision", called |-> ran.called] @@ ran.decision]
    /\ pc' = [pc EXCEPT ![p] = "done"]
    /\ ncalls' = ncalls + 1
    /\ UNCHANGED <<clock, ledger, tokens, policy_events, handler_calls, executors, loc, memvars>>

NextBefore ==
    \/ \E p \in Threads : RunBefore(p)
    \/ Tick

SpecBefore == InitTokens(HookTokens) /\ [][NextBefore]_vars

(***************************************************************************)
(* Two users at once: the clinic search under the same explicit key by u1  *)
(* and by u2, and sweeps of either user's memory, in one clock hour        *)
(***************************************************************************)
IsolationInputs == {L0, [L0 EXCEPT !.ctx.user_id = "u2"]}

\* an empty ledger; for each user a symptom report past the auto-resolve
\* threshold, an inference past its expiry and a signal past its deadline
InitIsolation ==
    /\ clock = 1
    /\ ledger = <<>>
    /\ handler_calls = <<>>
    /\ executors = <<>>
    /\ tokens = <<>>
    /\ policy_events = 0
    /\ pc = [p \in Threads |-> "idle"]
    /\ call = [p \in Threads |-> NoCall]
    /\ loc = [p \in Threads |-> EmptyLoc]
    /\ ret = [p \in Threads |-> NoRet]
    /\ ncalls = 0
    /\ symptom_states =
          [i \in 1..2 |-> [id |-> <<"s1", "s2">>[i], user_id |-> <<"u1", "u2">>[i],
                           status |-> "active",
                           last_confirmed_at |-> <<1 - days(AUTO_RESOLVE_DAYS) - 1>>,
                           reconfirm_due_at |-> <<>>, updated_at |-> <<0>>]]
    /\ inferences =
          [i \in 1..2 |-> [id |-> <<"i1", "i2">>[i], user_id |-> <<"u1", "u2">>[i],
                           status |-> "active", expires_at |-> <<1>>, updated_at |-> <<0>>]]
    /\ health_signals =
          [i \in 1..2 |-> [id |-> <<"h1", "h2">>[i], user_id |-> <<"u1", "u2">>[i],
                           stale |-> 0, stale_after |-> <<1>>, updated_at |-> <<0>>]]
    /\ sweep = NoSweep

NextIsolation ==
    \/ \E p \in Threads : ExecStart(p, IsolationInputs)
    \/ \E p \in Threads : TransitionRead(p)
    \/ \E p \in Threads : TransitionWrite(p)
    \/ \E p \in Threads : ExecPolicy(p)
    \/ \E p \in Threads : ExecBefore(p)
    \/ \E p \in Threads : ExecHandlerReturns(p, BookedOrPending)
    \/ \E p \in Threads : ExecAfter(p)
    \/ \E user_id \in Users : ApplyTemporal(user_id)

SpecIsolation == InitIsolation /\ [][NextIsolation]_vars

(***************************************************************************)
(* Properties of the action ledger (specification SpecLedger)              *)
(***************************************************************************)
\* the transition table as the specification prints it
TablePairs ==
    ({"planned"} \X {"awaiting_confirmation", "executing", "blocked", "failed"})
    \cup ({"awaiting_confirmation"} \X {"executing", "expired", "blocked", "failed"})
    \cup ({"executing"} \X {"succeeded", "failed", "partial", "blocked", "expired", "pending"})
    \cup ({"pending"} \X {"succeeded", "failed", "partial", "blocked", "expired"})

TerminalStatuses == {"succeeded", "failed", "partial", "blocked", "expired"}

\* thread p runs the SELECT of its transition call in this step
SelectBy(p) == pc[p] = "t_read" /\ pc'[p] # "t_read"

\* thread p runs the UPDATE of its transition call in this step
UpdateBy(p) == pc[p] = "t_write" /\ pc'[p] # "t_write"

\* thread p makes call number ncalls + 1 in this step
CallBy(p, op) == ncalls' = ncalls + 1 /\ call'[p].op = op /\ call'[p].seq = ncalls'

\* C3: for every pair (current, next) of the transition table, a transition
\* call that finds the record with status current succeeds: the list it
\* builds is the lifecycle it found plus the one element next, its UPDATE
\* stores that list and the status next, and the list it returns is the
\* stored lifecycle.
C3_ValidTransitionSucceeds ==
    [][\A p \in Threads :
         LET a == loc[p].action_id
             n == loc[p].next_state
         IN  /\ ( /\ SelectBy(p)
                  /\ a \in 1..Len(ledger)
                  /\ <<ledger[a].status, n>> \in TablePairs )
                => /\ pc'[p] = "t_write"
                   /\ loc'[p].row_lifecycle = Append(ledger[a].lifecycle, n)
                   /\ Len(loc'[p].row_lifecycle) = Len(ledger[a].lifecycle) + 1
                   /\ ledger' = ledger
             /\ UpdateBy(p)
                => /\ ledger'[a].status = n
                   /\ ledger'[a].lifecycle = loc[p].row_lifecycle
                   /\ ledger'[a].lifecycle[Len(ledger'[a].lifecycle)] = n
                   /\ loc[p].site = "direct"
                      => ret'[p] = [kind |-> "lifecycle", lifecycle |-> ledger'[a].lifecycle]
      ]_vars

\* a direct transition pending -> succeeded has returned the stored lifecycle
C3_Witness ==
    \E p \in Threads :
        /\ pc[p] = "done"
        /\ call[p].op = "transition"
        /\ ret[p].kind = "lifecycle"
        /\ call[p].next_state = "succeeded"
        /\ ledger[call[p].action_id].status = "succeeded"
        /\ ledger[call[p].action_id].lifecycle = ret[p].lifecycle
        /\ ret[p].lifecycle[Len(ret[p].lifecycle) - 1] = "pending"

\* C4: a transition call for a pair (current, next) outside the transition
\* table, or for an action_id that does not exist, fails with LifecycleError
\* and leaves every field of every record unchanged.
C4_InvalidTransitionRejected ==
    [][\A p \in Threads :
         LET a == loc[p].action_id
             n == loc[p].next_state
         IN  ( /\ SelectBy(p)
               /\ \/ a \notin 1..Len(ledger)
                  \/ <<ledger[a].status, n>> \notin TablePairs )
             => /\ pc'[p] = "done"
                /\ ledger' = ledger
                /\ loc[p].site = "direct" => ret'[p] = [kind |-> "LifecycleError"]
      ]_vars

\* one call was rejected on a succeeded record, another on a missing id
C4_Witness ==
    \E p, q \in Threads :
        /\ call[p].op = "transition" /\ ret[p].kind = "LifecycleError"
        /\ call[p].action_id \in 1..Len(ledger)
        /\ ledger[call[p].action_id].status = "succeeded"
        /\ call[q].op = "transition" /\ ret[q].kind = "LifecycleError"
        /\ call[q].action_id \notin 1..Len(ledger)

\* C5: in every reachable state of the ledger, under any interleaving of
\* start and transition calls, concurrent transitions on one action_id
\* included, each record's status is the last element of its lifecycle.
C5_StatusIsLastOfLifecycle ==
    \A i \in 1..Len(ledger) :
        /\ ledger[i].lifecycle # <<>>
        /\ ledger[i].status = ledger[i].lifecycle[Len(ledger[i].lifecycle)]

\* two transitions of one action that both read the same lifecycle have both
\* written, with different targets
C5_Witness ==
    /\ call["w1"].op = "transition" /\ call["w2"].op = "transition"
    /\ call["w1"].action_id = call["w2"].action_id
    /\ ret["w1"].kind = "lifecycle" /\ ret["w2"].kind = "lifecycle"
    /\ Len(ret["w1"].lifecycle) = Len(ret["w2"].lifecycle)
    /\ ret["w1"].lifecycle # ret["w2"].lifecycle

\* C6: in every reachable state of the ledger a record's finished_at is set
\* if and only if its status is succeeded, failed, partial, blocked or
\* expired.
C6_FinishedIffTerminal ==
    \A i \in 1..Len(ledger) :
        (ledger[i].finished_at # NoTime) <=> (ledger[i].status \in TerminalStatuses)

\* C7: once a record's status has been terminal, no call made after that
\* changes its status or its lifecycle; and a pending record only moves to
\* a terminal status.
C7_TerminalAbsorbing ==
    [][\A p \in Threads :
         LET a == loc[p].action_id
         IN  UpdateBy(p)
             => /\ loc[p].began_finished
                   => /\ ledger'[a].status = ledger[a].status
                      /\ ledger'[a].lifecycle = ledger[a].lifecycle
                /\ (ledger[a].status = "pending" /\ ledger'[a].status # "pending")
                   => ledger'[a].status \in TerminalStatuses
      ]_vars

\* the records a start call with the arguments c conflicts with
Holders(c) ==
    {i \in 1..Len(ledger) : /\ ledger[i].user_id = c.user_id
                            /\ ledger[i].idempotency_key = c.idempotency_key
                            /\ ledger[i].replay_window_bucket = c.bucket}

\* C8: a start call for a (user_id, idempotency key, bucket) no record holds
\* creates the record and returns it with replayed=false, status planned and
\* lifecycle [planned]; a start call for a triple a record holds returns that
\* record's action_id with replayed=true and its current status, lifecycle
\* and result, and leaves the ledger as it was, whatever else it passes.
C8_StartIdempotent ==
    [][\A p \in Threads :
         CallBy(p, "start")
         => LET c == call'[p]
                r == ret'[p]
            IN  IF Holders(c) = {}
                THEN /\ Len(ledger') = Len(ledger) + 1
                     /\ \A i \in 1..Len(ledger) : ledger'[i] = ledger[i]
                     /\ r.action_id = Len(ledger')
                     /\ ledger'[r.action_id].user_id = c.user_id
                     /\ ledger'[r.action_id].idempotency_key = c.idempotency_key
                     /\ ledger'[r.action_id].replay_window_bucket = c.bucket
                     /\ ~r.replayed
                     /\ r.status = "planned"
                     /\ r.lifecycle = <<"planned">>
                ELSE /\ ledger' = ledger
                     /\ \A i \in Holders(c) :
                          /\ r.action_id = i
                          /\ r.replayed
                          /\ r.status = ledger[i].status
                          /\ r.lifecycle = ledger[i].lifecycle
                          /\ r.result_json = ledger[i].result_json
      ]_vars

\* a second start with another session, action type, payload and token got
\* the record of the first
C8_Witness ==
    \E p, q \in Threads :
        /\ call[p].op = "start" /\ call[q].op = "start"
        /\ ~ret[p].replayed /\ ret[q].replayed
        /\ ret[p].action_id = ret[q].action_id
        /\ call[p].variant # call[q].variant
        /\ ledger[ret[p].action_id].action_type = call[p].variant.action_type

\* C9: the ledger never holds two records with the same (user_id,
\* idempotency key, bucket); of the start calls for one triple at most one
\* returns replayed=false, and all of them return the one action_id of the
\* record holding the triple.
C9_OneWinner ==
    /\ \A i, j \in 1..Len(ledger) :
         ( /\ ledger[i].user_id = ledger[j].user_id
           /\ ledger[i].idempotency_key = ledger[j].idempotency_key
           /\ ledger[i].replay_window_bucket = ledger[j].replay_window_bucket )
         => i = j
    /\ \A p \in Threads :
         call[p].op = "start" => Holders(call[p]) = {ret[p].action_id}
    /\ \A p, q \in Threads :
         ( /\ p # q
           /\ call[p].op = "start" /\ call[q].op = "start"
           /\ call[p].user_id = call[q].user_id
           /\ call[p].idempotency_key = call[q].idempotency_key
           /\ call[p].bucket = call[q].bucket )
         => /\ ret[p].action_id = ret[q].action_id
            /\ ret[p].replayed \/ ret[q].replayed

\* two start calls for one triple on an empty ledger: one created the
\* record, the other replayed it
C9_Witness ==
    \E p, q \in Threads :
        /\ call[p].op = "start" /\ call[q].op = "start"
        /\ call[p].user_id = call[q].user_id
        /\ call[p].bucket = call[q].bucket
        /\ call[p].seq = 1 /\ call[q].seq = 2
        /\ ~ret[p].replayed /\ ret[q].replayed
        /\ Len(ledger) = 1

(***************************************************************************)
(* Properties of execute (specifications SpecConsent, SpecReplay,          *)
(* SpecBinding)                                                            *)
(***************************************************************************)
TransactionalNames == {"appointment_book", "medical_purchase", "medication_refill_request"}

\* thread p serves an execute call for a transactional tool
Transactional(p) == call[p].op = "execute" /\ call[p].tool.name \in TransactionalNames

\* the handler is about to be invoked by p, or has been and p has not returned
AtHandler(p) == pc[p] = "e_handler" \/ (pc[p] # "done" /\ loc[p].handler_runs > 0)

\* p's call created its action, no other call worked on it, and the
\* confirmation and the policy let it through to the pre-hooks
SoleAndAdmitted(p) ==
    /\ pc[p] = "done"
    /\ ~loc[p].replayed
    /\ executors[loc[p].action_id] = 1
    /\ call[p].ctx.user_confirmed
    /\ ~call[p].ctx.emergency
    /\ call[p].payload.target_user_id \in {NULL, call[p].ctx.user_id}

\* C1: the handler of a transactional tool is invoked only if
\* ctx.user_confirmed is true, the policy allowed and the pre-hook allowed,
\* and then the payload carried a consent token whose row, when the pre-hook
\* checked it, existed, was unused, unexpired and bound to the caller, the
\* tool name and the sanitized payload hash.  An execute without a token
\* never reaches the handler, and when it gets to the pre-hook it ends
\* blocked, with lifecycle [planned, awaiting_confirmation, blocked] and code
\* missing_consent_token.
C1_ConsentGate ==
    \A p \in Threads :
        /\ (Transactional(p) /\ AtHandler(p))
           => /\ call[p].ctx.user_confirmed
              /\ loc[p].policy_code = "ok"
              /\ loc[p].hook_code = "ok"
              /\ loc[p].token_row # <<>>
              /\ LET t == loc[p].token_row[1]
                 IN  /\ t.token = call[p].payload.consent_token
                     /\ t.used_at = NoTime
                     /\ t.expires_at > loc[p].checked_at
                     /\ t.user_id = call[p].ctx.user_id
                     /\ t.action_type = call[p].tool.name
                     /\ t.payload_hash = tool_params_hash(call[p].payload)
        /\ (Transactional(p) /\ loc[p].handler_runs > 0)
           => call[p].ctx.user_confirmed /\ call[p].payload.consent_token # NULL
        /\ (Transactional(p) /\ call[p].payload.consent_token = NULL)
           => /\ loc[p].handler_runs = 0
              /\ pc[p] # "e_handler"
              /\ SoleAndAdmitted(p)
                 => /\ ret[p].status = "blocked"
                    /\ ret[p].errors # <<>>
                    /\ ret[p].errors[1].code = "missing_consent_token"
                    /\ ret[p].lifecycle = <<"planned", "awaiting_confirmation", "blocked">>
                    /\ ledger[ret[p].action_id].lifecycle = ret[p].lifecycle

\* one call without a token has ended blocked, another stands before the
\* handler with a valid token
C1_Witness ==
    \E p, q \in Threads :
        /\ Transactional(p) /\ pc[p] = "done"
        /\ call[p].payload.consent_token = NULL
        /\ ret[p].errors # <<>>
        /\ ret[p].errors[1].code = "missing_consent_token"
        /\ Transactional(q) /\ pc[q] = "e_handler"
        /\ loc[q].token_row # <<>>

\* C2: an execute by the user, with the idempotency key and in the replay
\* bucket of an action that is in a terminal state returns that action's
\* recorded status and result data with replayed=true, its action_id and
\* its lifecycle, without invoking the handler or writing to the ledger.
C2_TerminalReplay ==
    [][\A p \in Threads :
         CallBy(p, "execute")
         => LET c == call'[p]
                r == ret'[p]
            IN  \A i \in 1..Len(ledger) :
                  ( /\ ledger[i].user_id = c.ctx.user_id
                    /\ ledger[i].idempotency_key = c.idempotency_key
                    /\ ledger[i].replay_window_bucket = c.bucket
                    /\ ledger[i].status \in TerminalStatuses )
                  => /\ pc'[p] = "done"
                     /\ r.status = ledger[i].status
                     /\ r.data.value = ledger[i].result_json
                     /\ r.data.replayed
                     /\ r.action_id = i
                     /\ r.lifecycle = ledger[i].lifecycle
                     /\ loc'[p].handler_runs = 0
                     /\ handler_calls' = handler_calls
                     /\ ledger' = ledger
      ]_vars

\* an execute got the data d1 of an action whose handler ran once
C2_Witness ==
    \E p \in Threads :
        /\ pc[p] = "done" /\ call[p].op = "execute"
        /\ ret[p].data.replayed
        /\ ret[p].data.value = "d1"
        /\ ret[p].status \in {"succeeded", "partial"}
        /\ ret[p].lifecycle = ledger[ret[p].action_id].lifecycle
        /\ handler_calls[ret[p].action_id] = 1
        /\ loc[p].handler_runs = 0

\* the sanitized payload hashes of the requests
RequestHashes == {tool_params_hash(in.payload) : in \in ExecInputs \cup BindingInputs}

\* the token p presents is a row issued for another sanitized payload hash
ForeignToken(p) ==
    \E i \in 1..Len(tokens) :
        /\ tokens[i].token = call[p].payload.consent_token
        /\ tokens[i].payload_hash # tool_params_hash(call[p].payload)

\* C10: a token issued for payload hash H1 fails validation with reason
\* payload mismatch for every hash H2 # H1, user and action type matching;
\* an execute of a transactional tool whose sanitized payload hash differs
\* from the one of the token it presents never reaches the handler, and when
\* it gets to the pre-hook it is rejected with code invalid_consent_token.
C10_PayloadBinding ==
    /\ \A i \in 1..Len(tokens), h \in RequestHashes :
         h # tokens[i].payload_hash
         => validate_consent_token(tokens, tokens[i].user_id, tokens[i].action_type, h,
                                   tokens[i].token, clock)
            = [ok |-> FALSE, reason |-> "Consent token payload mismatch."]
    /\ \A p \in Threads :
         (Transactional(p) /\ ForeignToken(p))
         => /\ loc[p].handler_runs = 0
            /\ pc[p] # "e_handler"
            /\ loc[p].hook_code \in {NULL, "invalid_consent_token"}
            /\ SoleAndAdmitted(p)
               => /\ ret[p].status = "blocked"
                  /\ ret[p].errors # <<>>
                  /\ ret[p].errors[1].code = "invalid_consent_token"

\* the booking of b2 with the unused, unexpired token u1 got for the booking
\* of b1 was rejected for the payload mismatch
C10_Witness ==
    \E p \in Threads :
        /\ Transactional(p) /\ pc[p] = "done"
        /\ call[p].payload.body = "b2"
        /\ call[p].payload.payload_hash = NoHash
        /\ ForeignToken(p)
        /\ ret[p].errors # <<>>
        /\ ret[p].errors[1].code = "invalid_consent_token"
        /\ ret[p].errors[1].message = "Consent token payload mismatch."
        /\ handler_calls[ret[p].action_id] = 0

(***************************************************************************)
(* Properties of consent tokens, post-hooks and denials                    *)
(***************************************************************************)
\* thread p takes the step that runs the pre-hooks
BeforeBy(p) == pc[p] = "e_before" /\ pc'[p] # "e_before"

\* the rows of the token p presents that are marked used
UsedPresented(p) ==
    {i \in 1..Len(tokens) :
        tokens[i].token = call[p].payload.consent_token /\ tokens[i].used_at # NoTime}

ReturnsBy(p) == pc[p] \notin {"idle", "done"} /\ pc'[p] = "done" /\ call[p].op = "execute"

\* the rows of the token p presents
Presented(p) == {i \in 1..Len(tokens) : tokens[i].token = call[p].payload.consent_token}

\* C12: the step in which an execute of a transactional tool returns stamps
\* used_at on the presented token when the returned status is succeeded or
\* partial, and leaves the whole consent_tokens table as it was (the token
\* as valid as before) for every other status; nothing else changes the table.
C12_ConsumedIffSucceededOrPartial ==
    [][ /\ \A p \in Threads :
             (ReturnsBy(p) /\ Transactional(p))
             => IF ret'[p].status \in {"succeeded", "partial"}
                THEN /\ Presented(p) # {}
                     /\ \A i \in Presented(p) : tokens'[i].used_at = At(clock)
                ELSE /\ ret'[p].status \in {"pending", "failed", "blocked", "expired"}
                     /\ tokens' = tokens
        /\ tokens' # tokens
           => \E p \in Threads :
                /\ ReturnsBy(p) /\ Transactional(p)
                /\ ret'[p].status \in {"succeeded", "partial"}
      ]_vars

\* the handler ran and the booking ended pending: the presented token is
\* unused and still validates for the request
C12_Witness ==
    \E p \in Threads :
        /\ Transactional(p) /\ pc[p] = "done"
        /\ ~loc[p].replayed
        /\ ret[p].status = "pending"
        /\ handler_calls[ret[p].action_id] = 1
        /\ Presented(p) # {}
        /\ \A i \in Presented(p) : tokens[i].used_at = NoTime
        /\ validate_consent_token(tokens, call[p].ctx.user_id, call[p].tool.name,
                                  tool_params_hash(call[p].payload),
                                  call[p].payload.consent_token, clock).ok

\* an execute of a transactional tool in an emergency context
Emergency(p) == Transactional(p) /\ call[p].ctx.emergency

\* C13 (as stated): every execute of a transactional tool with ctx.emergency
\* that has returned was blocked with code emergency_transaction_block.
C13_EveryEmergencyCallBlockedByPolicy ==
    \A p \in Threads :
        (Emergency(p) /\ pc[p] = "done")
        => /\ ret[p].status = "blocked"
           /\ ret[p].errors # <<>>
           /\ ret[p].errors[1].code = "emergency_transaction_block"

\* C13 (amended): an execute of a transactional tool with ctx.emergency never
\* runs a pre-hook, the handler or a post-hook, with or without a valid
\* token; the only policy denial it can get is emergency_transaction_block,
\* also when the target is another user; and a confirmed call that created
\* its action and is the only one working on it returns blocked with that
\* code and lifecycle [planned, awaiting_confirmation, blocked].
C13_EmergencyGate ==
    \A p \in Threads :
        Emergency(p)
        => /\ pc[p] \notin {"e_before", "e_handler", "e_after"}
           /\ loc[p].handler_runs = 0
           /\ loc[p].after_runs = 0
           /\ loc[p].hook_code = NULL
           /\ loc[p].policy_code \in {NULL, "emergency_transaction_block"}
           /\ (pc[p] = "done" /\ ~loc[p].replayed /\ call[p].ctx.user_confirmed
                 /\ executors[loc[p].action_id] = 1)
              => /\ ret[p].status = "blocked"
                 /\ ret[p].errors
                    = Err("emergency_transaction_block",
                          "Transactional actions are blocked in an emergency context.")
                 /\ ret[p].lifecycle = <<"planned", "awaiting_confirmation", "blocked">>
                 /\ ledger[ret[p].action_id].lifecycle = ret[p].lifecycle
                 /\ handler_calls[ret[p].action_id] = 0

\* a confirmed emergency booking, presenting a token that validates for it,
\* was blocked by the emergency rule
C13_Witness ==
    \E p \in Threads :
        /\ Emergency(p) /\ pc[p] = "done"
        /\ ~loc[p].replayed
        /\ call[p].ctx.user_confirmed
        /\ validate_consent_token(tokens, call[p].ctx.user_id, call[p].tool.name,
                                  tool_params_hash(call[p].payload),
                                  call[p].payload.consent_token, clock).ok
        /\ ret[p].status = "blocked"
        /\ ret[p].errors # <<>>
        /\ ret[p].errors[1].code = "emergency_transaction_block"
        /\ handler_calls[ret[p].action_id] = 0

\* an execute of a transactional tool the caller has not confirmed
Unconfirmed(p) == Transactional(p) /\ ~call[p].ctx.user_confirmed

\* C14: an unconfirmed execute of a transactional tool is never at the
\* policy, the pre-hooks, the handler or the post-hooks; when it created its
\* action and is the only call working on it, it returns blocked with the
\* single error not_confirmed and lifecycle [planned, awaiting_confirmation,
\* blocked], which is also the recorded lifecycle, and the handler of the
\* action has not run.
C14_UnconfirmedBlocked ==
    \A p \in Threads :
        Unconfirmed(p)
        => /\ pc[p] \notin {"e_policy", "e_before", "e_handler", "e_after"}
           /\ loc[p].policy_code = NULL
           /\ loc[p].hook_code = NULL
           /\ loc[p].handler_runs = 0
           /\ loc[p].after_runs = 0
           /\ (pc[p] = "done" /\ ~loc[p].replayed /\ executors[loc[p].action_id] = 1)
              => /\ ret[p].status = "blocked"
                 /\ Len(ret[p].errors) = 1
                 /\ ret[p].errors[1].code = "not_confirmed"
                 /\ ret[p].lifecycle = <<"planned", "awaiting_confirmation", "blocked">>
                 /\ ledger[ret[p].action_id].lifecycle = ret[p].lifecycle
                 /\ ledger[ret[p].action_id].status = "blocked"
                 /\ handler_calls[ret[p].action_id] = 0

\* a fresh unconfirmed booking has returned
C14_Witness ==
    \E p \in Threads :
        /\ Unconfirmed(p) /\ pc[p] = "done"
        /\ ~loc[p].replayed
        /\ executors[loc[p].action_id] = 1
        /\ ret[p].status = "blocked"
        /\ ret[p].lifecycle = <<"planned", "awaiting_confirmation", "blocked">>
        /\ call[p].payload.consent_token # NULL

\* the outcome of a handler exception
ExceptionOutcome == [status |-> "failed", data |-> NULL, errors |-> Err("tool_exception", "exc")]

\* C15: when the handler raises, execute asks for the transition to failed
\* with error code tool_exception; the write of that transition records
\* status failed and error_code tool_exception and hands the failed outcome
\* to the post-hooks; the post-hooks run once and execute returns status
\* failed with error tool_exception; the only other way out is the
\* lifecycle_error result of a rejected transition.
C15_HandlerException ==
    [][ \A p \in Threads :
          /\ (pc[p] = "e_handler" /\ loc'[p].site = "exc")
             => /\ pc'[p] = "t_read"
                /\ loc'[p].next_state = "failed"
                /\ loc'[p].error_code = "tool_exception"
                /\ handler_calls'[loc[p].action_id] = handler_calls[loc[p].action_id] + 1
          /\ (pc[p] = "t_read" /\ loc[p].site = "exc" /\ pc'[p] # "t_read")
             => \/ pc'[p] = "t_write" /\ loc'[p].site = "exc"
                \/ /\ pc'[p] = "done"
                   /\ ret'[p].status = "failed"
                   /\ ret'[p].errors[1].code = "lifecycle_error"
          /\ (pc[p] = "t_write" /\ loc[p].site = "exc" /\ pc'[p] # "t_write")
             => /\ ledger'[loc[p].action_id].status = "failed"
                /\ ledger'[loc[p].action_id].error_code = "tool_exception"
                /\ ledger'[loc[p].action_id].finished_at # NoTime
                /\ pc'[p] = "e_after"
                /\ loc'[p].site = "exc"
                /\ loc'[p].outcome = ExceptionOutcome
          /\ (pc[p] = "e_after" /\ loc[p].site = "exc" /\ pc'[p] # "e_after")
             => /\ pc'[p] = "done"
                /\ loc[p].outcome = ExceptionOutcome
                /\ loc'[p].after_runs = loc[p].after_runs + 1
                /\ policy_events' = policy_events + 1
                /\ tokens' = after_tool_call(call[p].tool, call[p].payload, ExceptionOutcome,
                                             tokens, clock)
                /\ ret'[p].kind = "ToolExecutionResult"
                /\ ret'[p].status = "failed"
                /\ ret'[p].errors = Err("tool_exception", "exc")
                /\ ret'[p].action_id = loc[p].action_id
      ]_vars

\* the handler of a booking raised; the call has returned failed with
\* tool_exception after one run of the post-hooks, and the record says so
C15_Witness ==
    \E p \in Threads :
        /\ pc[p] = "done" /\ call[p].op = "execute"
        /\ ret[p].status = "failed"
        /\ ret[p].errors = Err("tool_exception", "exc")
        /\ loc[p].handler_runs = 1
        /\ loc[p].after_runs = 1
        /\ ledger[ret[p].action_id].status = "failed"
        /\ ledger[ret[p].action_id].error_code = "tool_exception"

\* thread p takes the pre-hook step and a hook denies
DeniedBy(p) == pc[p] = "e_before" /\ pc'[p] # "e_before" /\ loc'[p].site = "hook"

\* the outcome execute builds for the denial thread p got
DenialOutcome(p) ==
    [status |-> loc[p].next_state, data |-> NULL,
     errors |-> Err(loc[p].hook_code, loc[p].hook_message)]

\* C16: when a pre-hook denies, execute asks for the transition to blocked
\* if the state it holds is planned or awaiting_confirmation and to failed
\* otherwise, without running the handler; the write of that transition
\* records that status; the post-hooks then run, once in the call, with an
\* outcome of that status and the hook's code and message, and execute
\* returns that status and error; the only other way out is the
\* lifecycle_error result of a rejected transition.
C16_HookDenial ==
    [][ \A p \in Threads :
          /\ DeniedBy(p)
             => /\ pc'[p] = "t_read"
                /\ loc'[p].next_state
                   = (IF loc[p].current_state \in {"planned", "awaiting_confirmation"}
                      THEN "blocked" ELSE "failed")
                /\ loc'[p].hook_code \notin {NULL, "ok"}
                /\ loc'[p].handler_runs = 0
                /\ handler_calls' = handler_calls
          /\ (pc[p] = "t_read" /\ loc[p].site = "hook" /\ pc'[p] # "t_read")
             => \/ pc'[p] = "t_write" /\ loc'[p].site = "hook"
                \/ /\ pc'[p] = "done"
                   /\ ret'[p].status = "failed"
                   /\ ret'[p].errors[1].code = "lifecycle_error"
                   /\ loc'[p].after_runs = 0
          /\ (pc[p] = "t_write" /\ loc[p].site = "hook" /\ pc'[p] # "t_write")
             => /\ ledger'[loc[p].action_id].status = loc[p].next_state
                /\ pc'[p] = "e_after"
                /\ loc'[p].site = "hook"
                /\ loc'[p].outcome = DenialOutcome(p)
                /\ handler_calls' = handler_calls
          /\ (pc[p] = "e_after" /\ loc[p].site = "hook" /\ pc'[p] # "e_after")
             => /\ pc'[p] = "done"
                /\ loc[p].outcome = DenialOutcome(p)
                /\ loc[p].after_runs = 0 /\ loc'[p].after_runs = 1
                /\ policy_events' = policy_events + 1
                /\ loc'[p].handler_runs = 0
                /\ handler_calls' = handler_calls
                /\ ret'[p].status = loc[p].next_state
                /\ ret'[p].status \in {"blocked", "failed"}
                /\ ret'[p].errors = Err(loc[p].hook_code, loc[p].hook_message)
      ]_vars

\* a clinic search ended pending; its replay with a body a pre-hook denies
\* was sent to failed and returned the hook's error after one run of the
\* post-hooks
C16_Witness ==
    \E p \in Threads :
        /\ pc[p] = "done" /\ call[p].op = "execute"
        /\ loc[p].replayed
        /\ ret[p].status = "failed"
        /\ ret[p].errors = Err("hook_denied", "denied by hook")
        /\ loc[p].handler_runs = 0
        /\ loc[p].after_runs = 1
        /\ ledger[ret[p].action_id].status = "failed"
        /\ ledger[ret[p].action_id].lifecycle[Len(ledger[ret[p].action_id].lifecycle) - 1]
           = "pending"

\* the transition thread p requested inside execute is rejected in this step
RejectedBy(p) ==
    /\ pc[p] = "t_read" /\ call[p].op = "execute"
    /\ transition_rejects(ledger, loc[p].action_id, loc[p].next_state)
    /\ pc'[p] # "t_read"

\* C17: the step in which the ledger rejects a transition requested inside
\* execute ends the call with a result of status failed and the single error
\* lifecycle_error, carrying the action id and the lifecycle list the call
\* last observed; that step changes neither the record nor the tokens and
\* runs no post-hook, and the call takes no later step.
C17_LifecycleErrorResult ==
    [][ \A p \in Threads :
          /\ RejectedBy(p)
             => /\ pc'[p] = "done"
                /\ ret'[p].kind = "ToolExecutionResult"
                /\ ret'[p].status = "failed"
                /\ Len(ret'[p].errors) = 1
                /\ ret'[p].errors[1].code = "lifecycle_error"
                /\ ret'[p].lifecycle = loc[p].lifecycle
                /\ ret'[p].action_id = loc[p].action_id
                /\ ledger' = ledger
                /\ tokens' = tokens
                /\ policy_events' = policy_events
                /\ handler_calls' = handler_calls
                /\ loc'[p].after_runs = loc[p].after_runs
          /\ (pc[p] = "done" /\ call'[p] = call[p])
             => pc'[p] = "done" /\ ret'[p] = ret[p]
      ]_vars

\* a call returned lifecycle_error with the list it had observed, while the
\* record, moved on by the other call, holds a longer one
C17_Witness ==
    \E p \in Threads :
        /\ pc[p] = "done" /\ call[p].op = "execute"
        /\ ret[p].status = "failed"
        /\ ret[p].errors # <<>>
        /\ ret[p].errors[1].code = "lifecycle_error"
        /\ Len(ledger[ret[p].action_id].lifecycle) > Len(ret[p].lifecycle)

\* the execute thread p begins in this step has the user, key and bucket of
\* a record that is in a terminal state
ReplaysTerminal(p) ==
    /\ CallBy(p, "execute")
    /\ \E i \in 1..Len(ledger) :
         /\ ledger[i].user_id = call'[p].ctx.user_id
         /\ ledger[i].idempotency_key = call'[p].idempotency_key
         /\ ledger[i].replay_window_bucket = call'[p].bucket
         /\ ledger[i].status \in TerminalStatuses

\* C20: an execute that replays a terminal action completes in one step that
\* leaves every action record and every consent token as they were, appends
\* no policy event and runs no handler; the call has then evaluated no
\* policy and run no pre-hook, post-hook or handler, whatever its
\* user_confirmed and emergency flags, and does nothing afterwards.
C20_TerminalReplayChangesNothing ==
    [][ \A p \in Threads :
          /\ ReplaysTerminal(p)
             => /\ ledger' = ledger
                /\ tokens' = tokens
                /\ policy_events' = policy_events
                /\ handler_calls' = handler_calls
                /\ pc'[p] = "done"
                /\ ret'[p].data.replayed
                /\ loc'[p].policy_code = NULL
                /\ loc'[p].hook_code = NULL
                /\ loc'[p].handler_runs = 0
                /\ loc'[p].after_runs = 0
                /\ loc'[p].after_invoked = <<>>
          /\ (pc[p] = "done" /\ ret[p].kind = "ToolExecutionResult" /\ ret[p].data.replayed
                /\ call'[p] = call[p])
             => pc'[p] = pc[p] /\ loc'[p] = loc[p] /\ ret'[p] = ret[p]
      ]_vars

\* a call without confirmation or in an emergency replayed a booking that
\* had succeeded
C20_Witness ==
    \E p \in Threads :
        /\ pc[p] = "done" /\ Transactional(p)
        /\ ret[p].data.replayed
        /\ call[p].ctx.emergency \/ ~call[p].ctx.user_confirmed
        /\ ret[p].status = "succeeded"
        /\ handler_calls[ret[p].action_id] = 1
        /\ \E i \in 1..Len(tokens) : tokens[i].used_at # NoTime

(***************************************************************************)
(* Properties of the decay sweep (specification SpecSweep)                 *)
(***************************************************************************)
\* this step is a sweep for the user of the last sweep, at the same clock
\* value, with no write to the tables in between
RepeatedSweep == sweep.streak >= 1 /\ sweep'.streak = sweep.streak + 1

\* C18: a sweep that immediately repeats the sweep for the same user leaves
\* the symptom states, the inferences and the health signals as the first
\* run left them, and reports no resolved, no expired and no stale item.
C18_SweepIdempotent ==
    [][ RepeatedSweep
        => /\ symptom_states' = symptom_states
           /\ inferences' = inferences
           /\ health_signals' = health_signals
           /\ sweep'.result[1].resolved_unconfirmed_count = 0
           /\ sweep'.result[1].inference_expired_count = 0
           /\ sweep'.result[1].stale_health_signal_count = 0
      ]_vars

\* the sweep ran twice in a row; the first run had resolved a symptom,
\* expired an inference and marked a signal stale
C18_Witness ==
    /\ sweep.streak = 2
    /\ sweep.result[1].resolved_unconfirmed_count = 0
    /\ \E i \in 1..Len(symptom_states) :
         /\ symptom_states[i].user_id = sweep.user_id
         /\ symptom_states[i].status = "resolved_unconfirmed"
         /\ symptom_states[i].updated_at = to_iso(sweep.now)
    /\ \E i \in 1..Len(inferences) :
         /\ inferences[i].user_id = sweep.user_id
         /\ inferences[i].status = "expired"
         /\ inferences[i].updated_at = to_iso(sweep.now)
    /\ \E i \in 1..Len(health_signals) :
         /\ health_signals[i].user_id = sweep.user_id
         /\ health_signals[i].stale = 1
         /\ health_signals[i].updated_at = to_iso(sweep.now)

(***************************************************************************)
(* Properties of the post-hook runner (specification SpecAfter)            *)
(***************************************************************************)
\* C19: a call of execute that has run the post-hooks has invoked every
\* registered post-hook, in registration order, whether or not one raised.
C19_EveryPostHookInvoked ==
    \A p \in Threads :
        (pc[p] = "done" /\ call[p].op = "execute" /\ loc[p].after_runs > 0)
        => loc[p].after_invoked = hooks_with_audit

(***************************************************************************)
(* Properties of concurrent executes under one key (specification         *)
(* SpecHooks)                                                              *)
(***************************************************************************)
\* two execute calls in flight at once for the same user, key and bucket
SameRequest(p, q) ==
    /\ p # q
    /\ pc[p] \notin {"idle", "done"} /\ pc[q] \notin {"idle", "done"}
    /\ call[p].op = "execute" /\ call[q].op = "execute"
    /\ call[p].ctx.user_id = call[q].ctx.user_id
    /\ call[p].idempotency_key = call[q].idempotency_key
    /\ call[p].bucket = call[q].bucket

\* C21: two concurrent execute calls of one user with the same idempotency
\* key in the same replay bucket work on the same action_id, and together
\* they invoke the tool handler at most once.
C21_OneHandlerRunPerKey ==
    \A p, q \in Threads :
        SameRequest(p, q) =>
            /\ loc[p].action_id = loc[q].action_id
            /\ loc[p].handler_runs + loc[q].handler_runs <= 1

(***************************************************************************)
(* Properties of the results of execute (specification SpecOutcome)        *)
(***************************************************************************)
\* thread p has returned a ToolExecutionResult from execute
Returned(p) ==
    pc[p] = "done" /\ call[p].op = "execute" /\ ret[p].kind = "ToolExecutionResult"

\* C22: every result of execute whose status is blocked or failed, a replay
\* of an earlier denied or failed action included, has a non-empty errors
\* list whose first entry has a code and a message.
C22_DenialCarriesError ==
    \A p \in Threads :
        (Returned(p) /\ ret[p].status \in {"blocked", "failed"}) =>
            /\ ret[p].errors # <<>>
            /\ ret[p].errors[1].code # NULL
            /\ ret[p].errors[1].message # NULL

\* execute returns in this step of thread p from one of its denial or
\* exception branches: not confirmed, policy, pre-hook, handler exception
ReturnsDenialBy(p) ==
    /\ ReturnsBy(p)
    /\ loc[p].site \in {"notconf", "policy", "hook", "exc"}
    /\ ret'[p].kind = "ToolExecutionResult"
    /\ ret'[p].errors[1].code # "lifecycle_error"

\* C23: when execute returns a blocked or failed result because of a
\* not-confirmed block, a policy denial, a pre-hook denial or a handler
\* exception, the action's record holds the returned error code and message
\* at that moment.
C23_RecordHoldsReturnedError ==
    [][\A p \in Threads :
          ReturnsDenialBy(p) =>
              /\ ret'[p].status \in {"blocked", "failed"}
              /\ ledger'[ret'[p].action_id].error_code = ret'[p].errors[1].code
              /\ ledger'[ret'[p].action_id].error_message = ret'[p].errors[1].message]_vars

(***************************************************************************)
(* Properties of the policy engine (specification SpecPolicy)              *)
(***************************************************************************)
\* the payload names a user other than the caller
NamesOtherUser(c) ==
    c.payload.target_user_id # NULL /\ c.payload.target_user_id # c.ctx.user_id

\* C24: evaluate applies its rules in a fixed order and the first failing
\* rule gives the code: allowlist_denied for a tool outside the allow-list
\* whatever the other inputs, else emergency_transaction_block for a
\* transactional tool in an emergency even if the payload names another
\* user, else cross_user_block for a payload naming another user, else
\* allowed; and the call writes nothing.
C24_FirstFailingRuleWins ==
    [][\A p \in Threads :
          CallBy(p, "evaluate") =>
              LET c == call'[p]
                  d == ret'[p]
                  expected ==
                      IF c.tool.name \notin allowlist THEN "allowlist_denied"
                      ELSE IF c.tool.name \in transactional_tools /\ c.ctx.emergency
                      THEN "emergency_transaction_block"
                      ELSE IF NamesOtherUser(c) THEN "cross_user_block"
                      ELSE "ok"
              IN  /\ d.code = expected
                  /\ d.allowed <=> expected = "ok"
                  /\ UNCHANGED <<clock, ledger, tokens, policy_events, memvars>>]_vars

\* evaluate has denied an emergency booking whose payload names another
\* user, and a tool outside the allow-list in an emergency
C24_Witness ==
    /\ pc["w1"] = "done" /\ call["w1"].op = "evaluate"
    /\ call["w1"].tool.name = "appointment_book" /\ call["w1"].ctx.emergency
    /\ NamesOtherUser(call["w1"])
    /\ ret["w1"].code = "emergency_transaction_block"
    /\ pc["w2"] = "done" /\ call["w2"].op = "evaluate"
    /\ call["w2"].tool.name = "web_search" /\ call["w2"].ctx.emergency
    /\ NamesOtherUser(call["w2"])
    /\ ret["w2"].code = "allowlist_denied"

(***************************************************************************)
(* Properties of consent validation (specification SpecValidate)           *)
(***************************************************************************)
\* the rows of consent_tokens with the token of call c
RowsOf(c) == {i \in 1..Len(tokens) : tokens[i].token = c.token}

\* thread p ends its validation with ok in this step or goes on to consume
PassesBy(p) == pc'[p] = "v_mark" \/ (pc'[p] = "done" /\ ret'[p].ok)

\* C25: validate returns ok exactly when the token exists, its user_id,
\* action_type and payload_hash equal the arguments, used_at is null and
\* expires_at is strictly later than now; otherwise it returns not ok with
\* the reason of the first failing check, in the order not found, user,
\* action type, payload hash, already used, expired.
C25_ValidateDecision ==
    [][\A p \in Threads :
          CallBy(p, "validate") =>
              LET c == call'[p]
                  row == tokens[CHOOSE i \in RowsOf(c) : TRUE]
              IN  /\ PassesBy(p) <=>
                         /\ RowsOf(c) # {}
                         /\ row.user_id = c.user_id
                         /\ row.action_type = c.action_type
                         /\ row.payload_hash = c.payload_hash
                         /\ row.used_at = NoTime
                         /\ row.expires_at > clock
                  /\ ~PassesBy(p) =>
                         /\ ~ret'[p].ok
                         /\ ret'[p].reason =
                              IF RowsOf(c) = {} THEN "Consent token not found."
                              ELSE IF row.user_id # c.user_id
                              THEN "Consent token does not match user."
                              ELSE IF row.action_type # c.action_type
                              THEN "Consent token does not match action."
                              ELSE IF row.payload_hash # c.payload_hash
                              THEN "Consent token payload mismatch."
                              ELSE IF row.used_at # NoTime
                              THEN "Consent token already used."
                              ELSE "Consent token expired."]_vars

\* a validation by the holder has passed and consumed the token, and a later
\* one by another user for another action is refused for the user mismatch,
\* the first of its three failing checks
C25_Witness ==
    /\ pc["w1"] = "done" /\ call["w1"].op = "validate" /\ ret["w1"].ok /\ call["w1"].consume
    /\ pc["w2"] = "done" /\ call["w2"].op = "validate" /\ call["w2"].seq > call["w1"].seq
    /\ call["w2"].token = call["w1"].token
    /\ call["w2"].user_id = "u2" /\ call["w2"].action_type = "medical_purchase"
    /\ tokens[1].used_at # NoTime
    /\ ret["w2"].reason = "Consent token does not match user."

\* thread p, serving a validate call, takes a step
ValidateStepBy(p) ==
    \/ CallBy(p, "validate")
    \/ (pc[p] = "v_mark" /\ pc'[p] = "done")

\* token table U is T with used_at of the rows of token t stamped and
\* nothing else changed
OnlyStamped(T, U, t) ==
    /\ Len(U) = Len(T)
    /\ \A i \in 1..Len(T) :
         IF T[i].token = t
         THEN U[i].used_at # NoTime /\ [U[i] EXCEPT !.used_at = NoTime] = [T[i] EXCEPT !.used_at = NoTime]
         ELSE U[i] = T[i]

\* C26: validate with consume=false never modifies a token; validate with
\* consume=true modifies a token, by setting used_at, only when it returns
\* ok; a failed validate modifies nothing; and once a validate with
\* consume=true has returned ok the token stays used and every later
\* validate of it returns not ok.
C26_ConsumeOnlyOnSuccess ==
    [][/\ \A p \in Threads :
            ValidateStepBy(p) =>
                LET c == call'[p]
                    returns == pc'[p] = "done"
                IN  /\ ~c.consume => tokens' = tokens
                    /\ (returns /\ ~ret'[p].ok) => tokens' = tokens
                    /\ tokens' # tokens =>
                           /\ returns /\ ret'[p].ok /\ c.consume
                           /\ OnlyStamped(tokens, tokens', c.token)
                    /\ (returns /\ ret'[p].ok /\ c.consume) =>
                           /\ RowsOf(c) # {}
                           /\ \A i \in RowsOf(c) : tokens'[i].used_at # NoTime
                    /\ (CallBy(p, "validate") /\ \E i \in RowsOf(c) : tokens[i].used_at # NoTime)
                           => (returns /\ ~ret'[p].ok)
       /\ \A i \in 1..Len(tokens) :
            tokens[i].used_at # NoTime =>
                (Len(tokens') >= i /\ tokens'[i].token = tokens[i].token
                 /\ tokens'[i].used_at # NoTime)]_vars

\* a validate with consume=true has returned ok and stamped the token, and
\* a later validate of the same token with the same arguments is refused
C26_Witness ==
    /\ pc["w1"] = "done" /\ call["w1"].op = "validate" /\ ret["w1"].ok /\ call["w1"].consume
    /\ pc["w2"] = "done" /\ call["w2"].op = "validate" /\ call["w2"].seq > call["w1"].seq
    /\ [call["w2"] EXCEPT !.seq = 0, !.consume = TRUE] = [call["w1"] EXCEPT !.seq = 0]
    /\ tokens[1].used_at # NoTime
    /\ ret["w2"].reason = "Consent token already used."

(***************************************************************************)
(* Properties of the normal handler return (specification SpecResult)      *)
(***************************************************************************)
\* the state a handler output declares: its status if it is one of the six,
\* succeeded when the status is missing or anything else
Declared(out) ==
    IF out.status \in {"succeeded", "failed", "partial", "blocked", "expired", "pending"}
    THEN out.status ELSE "succeeded"

\* the lifecycle of a fresh action that ended in state st
FreshLifecycle(tool, st) ==
    IF tool.transactional
    THEN <<"planned", "awaiting_confirmation", "executing", st>>
    ELSE <<"planned", "executing", st>>

\* C27: when the handler returns normally, execute takes the status the
\* handler declared if it is one of succeeded, failed, partial, blocked,
\* expired, pending, and succeeded otherwise; it transitions the action to
\* exactly that state with the handler's data as the result, runs the
\* post-hooks once with that outcome and returns that status; for a fresh
\* action the lifecycle ends as [planned, (awaiting_confirmation if
\* transactional,) executing, that state].  The only other way out is the
\* lifecycle_error result of a rejected transition.
C27_NormalReturn ==
    [][ \A p \in Threads :
          LET a == loc[p].action_id
              out == loc'[p].tool_output[1]
              st == Declared(out)
          IN
          /\ (pc[p] = "e_handler" /\ loc'[p].site = "result")
             => /\ pc'[p] = "t_read"
                /\ loc'[p].next_state = st
                /\ loc'[p].result = out.data
                /\ handler_calls'[a] = handler_calls[a] + 1
          /\ (pc[p] = "t_read" /\ loc[p].site = "result" /\ pc'[p] # "t_read")
             => \/ pc'[p] = "t_write" /\ loc'[p].site = "result"
                \/ /\ pc'[p] = "done"
                   /\ ret'[p].status = "failed"
                   /\ ret'[p].errors[1].code = "lifecycle_error"
          /\ (pc[p] = "t_write" /\ loc[p].site = "result" /\ pc'[p] # "t_write")
             => /\ ledger'[a].status = st
                /\ ledger'[a].lifecycle[Len(ledger'[a].lifecycle)] = st
                /\ out.data # NULL => ledger'[a].result_json = out.data
                /\ pc'[p] = "e_after"
                /\ loc'[p].outcome = [status |-> st, data |-> out.data, errors |-> out.errors]
          /\ (pc[p] = "e_after" /\ loc[p].site = "result" /\ pc'[p] # "e_after")
             => /\ pc'[p] = "done"
                /\ loc[p].after_runs = 0 /\ loc'[p].after_runs = 1
                /\ loc'[p].after_invoked = after_hooks
                /\ policy_events' = policy_events + 1
                /\ tokens' = after_tool_call(call[p].tool, call[p].payload,
                                             [status |-> st, data |-> out.data,
                                              errors |-> out.errors], tokens, clock)
                /\ ret'[p].kind = "ToolExecutionResult"
                /\ ret'[p].status = st
                /\ ret'[p].data.value = out.data
                /\ ret'[p].errors = out.errors
                /\ ret'[p].action_id = a
                /\ (~loc[p].replayed /\ executors[a] = 1)
                      => /\ ret'[p].lifecycle = FreshLifecycle(call[p].tool, st)
                         /\ ledger'[a].lifecycle = FreshLifecycle(call[p].tool, st)
                         /\ ledger'[a].status = st
      ]_vars

\* a clinic search whose handler declared the unknown status done has
\* returned succeeded, and a booking whose handler declared pending has
\* returned pending, each after one run of the post-hooks and with the
\* lifecycle of a fresh action
C27_Witness ==
    \E p, q \in Threads :
        /\ pc[p] = "done" /\ pc[q] = "done"
        /\ ~call[p].tool.transactional /\ call[q].tool.transactional
        /\ loc[p].tool_output[1].status = "done" /\ loc[q].tool_output[1].status = "pending"
        /\ loc[p].after_runs = 1 /\ loc[q].after_runs = 1
        /\ ret[p].status = "succeeded"
        /\ ret[p].lifecycle = <<"planned", "executing", "succeeded">>
        /\ ledger[ret[p].action_id].result_json = "d1"
        /\ ret[q].status = "pending"
        /\ ret[q].lifecycle = <<"planned", "awaiting_confirmation", "executing", "pending">>
        /\ ledger[ret[q].action_id].status = "pending"

(***************************************************************************)
(* Properties of the policy denial (specification SpecDenial)              *)
(***************************************************************************)
\* C28: when the policy denies, execute asks for the transition to blocked
\* if the state it holds is planned or awaiting_confirmation and to failed
\* if it is executing or pending; the write of that transition records that
\* status and execute returns it with the policy's code and message; no
\* pre-hook, handler or post-hook is invoked.  The only other way out is
\* the lifecycle_error result of a rejected transition.
C28_PolicyDenial ==
    [][ \A p \in Threads :
          LET a == loc[p].action_id
              decision == evaluate(call[p].ctx, call[p].tool, call[p].payload)
          IN
          /\ (pc[p] = "e_policy" /\ pc'[p] # "e_policy" /\ ~decision.allowed)
             => /\ pc'[p] = "t_read"
                /\ loc'[p].site = "policy"
                /\ loc[p].current_state \in {"planned", "awaiting_confirmation"}
                      => loc'[p].next_state = "blocked"
                /\ loc[p].current_state \in {"executing", "pending"}
                      => loc'[p].next_state = "failed"
                /\ loc[p].current_state \in
                      {"planned", "awaiting_confirmation", "executing", "pending"}
                /\ loc'[p].policy_code = decision.code
                /\ loc'[p].policy_message = decision.message
          /\ (pc[p] = "t_read" /\ loc[p].site = "policy" /\ pc'[p] # "t_read")
             => \/ pc'[p] = "t_write" /\ loc'[p].site = "policy"
                \/ /\ pc'[p] = "done"
                   /\ ret'[p].status = "failed"
                   /\ ret'[p].errors[1].code = "lifecycle_error"
                   /\ loc'[p].handler_runs = 0 /\ loc'[p].after_runs = 0
          /\ (pc[p] = "t_write" /\ loc[p].site = "policy" /\ pc'[p] # "t_write")
             => /\ pc'[p] = "done"
                /\ ledger'[a].status = loc[p].next_state
                /\ ret'[p].kind = "ToolExecutionResult"
                /\ ret'[p].status = loc[p].next_state
                /\ ret'[p].errors = Err(decision.code, decision.message)
                /\ ret'[p].action_id = a
                /\ loc[p].hook_code = NULL /\ loc[p].token_row = <<>>
                /\ loc'[p].handler_runs = 0 /\ loc'[p].after_runs = 0
                /\ handler_calls' = handler_calls
                /\ tokens' = tokens /\ policy_events' = policy_events
                /\ (~loc[p].replayed /\ executors[a] = 1)
                      => /\ ret'[p].status = "blocked"
                         /\ ret'[p].lifecycle =
                               IF call[p].tool.transactional
                               THEN <<"planned", "awaiting_confirmation", "blocked">>
                               ELSE <<"planned", "blocked">>
                         /\ ledger'[a].lifecycle = ret'[p].lifecycle
      ]_vars

\* a clinic search ended pending; its replay naming another user was denied
\* by the policy, sent to failed and returned cross_user_block without a
\* second run of the handler
C28_Witness ==
    \E p \in Threads :
        /\ pc[p] = "done" /\ call[p].op = "execute" /\ loc[p].replayed
        /\ ret[p].status = "failed"
        /\ ret[p].errors = Err("cross_user_block", "Cross-user target is blocked.")
        /\ ret[p].lifecycle = <<"planned", "executing", "pending", "failed">>
        /\ ledger[ret[p].action_id].status = "failed"
        /\ loc[p].handler_runs = 0 /\ loc[p].after_runs = 0
        /\ handler_calls[ret[p].action_id] = 1

(***************************************************************************)
(* Properties of one run of the decay sweep (specification SpecSweep)      *)
(***************************************************************************)
\* this step is a run of the sweep
SweepStep == sweep' # sweep /\ sweep'.streak >= 1

\* the time since the last confirmation of a symptom state, at the sweep
\* of this step
Elapsed(row) == sweep'.now - row.last_confirmed_at[1]

\* the sweep of this step treats the symptom states of its user by their
\* age: resolved from AUTO_RESOLVE_DAYS + slack on, due from
\* RECONFIRM_HOURS + slack on, untouched otherwise (slack in ticks)
SweepTreatsByAge(slack) ==
    LET S == symptom_states
        mine(i) == S[i].user_id = sweep'.user_id /\ Len(S[i].last_confirmed_at) = 1
        resolves(i) == /\ mine(i) /\ S[i].status = "active"
                       /\ Elapsed(S[i]) >= days(AUTO_RESOLVE_DAYS) + slack
        due(i) == /\ mine(i) /\ S[i].status = "active" /\ ~resolves(i)
                  /\ Elapsed(S[i]) >= hours(RECONFIRM_HOURS) + slack
        result == sweep'.result[1]
    IN  /\ Len(symptom_states') = Len(S)
        /\ \A i \in 1..Len(S) :
             /\ resolves(i) =>
                  /\ symptom_states'[i] =
                        [S[i] EXCEPT !.status = "resolved_unconfirmed",
                                     !.updated_at = to_iso(sweep'.now)]
                  /\ \A k \in 1..Len(result.reconfirm_due_ids) :
                        result.reconfirm_due_ids[k] # S[i].id
             /\ due(i) =>
                  /\ symptom_states'[i] =
                        [S[i] EXCEPT !.reconfirm_due_at = to_iso(sweep'.now),
                                     !.updated_at = to_iso(sweep'.now)]
                  /\ symptom_states'[i].status = "active"
                  /\ Cardinality({k \in 1..Len(result.reconfirm_due_ids) :
                                     result.reconfirm_due_ids[k] = S[i].id}) = 1
             /\ (~resolves(i) /\ ~due(i)) =>
                  /\ symptom_states'[i] = S[i]
                  /\ \A k \in 1..Len(result.reconfirm_due_ids) :
                        result.reconfirm_due_ids[k] # S[i].id
        /\ result.resolved_unconfirmed_count = Cardinality({i \in 1..Len(S) : resolves(i)})

\* C29 (as stated): a run of the sweep resolves the user's active facts
\* whose time since the last confirmation exceeds 7 days, counting each
\* once and neither stamping nor reporting them; stamps reconfirm_due_at on
\* and reports the other active facts whose time exceeds 48 hours; and
\* modifies no other fact.
C29_ExceedsThresholds == [][SweepStep => SweepTreatsByAge(1)]_vars

\* C29 (amended): the same with "is at least" in place of "exceeds": a fact
\* is resolved from exactly 7 days on and due from exactly 48 hours on.
C29_ReachesThresholds == [][SweepStep => SweepTreatsByAge(0)]_vars

\* a sweep has resolved a symptom state that was confirmed exactly 7 days
\* before it, counted it, and neither stamped nor reported it
C29_Witness ==
    /\ sweep.streak = 1
    /\ sweep.result[1].resolved_unconfirmed_count = 1
    /\ sweep.result[1].reconfirm_due_ids = <<>>
    /\ \E i \in 1..Len(symptom_states) :
         /\ symptom_states[i].user_id = sweep.user_id
         /\ symptom_states[i].status = "resolved_unconfirmed"
         /\ symptom_states[i].last_confirmed_at = <<sweep.now - days(AUTO_RESOLVE_DAYS)>>
         /\ symptom_states[i].updated_at = to_iso(sweep.now)
         /\ symptom_states[i].reconfirm_due_at = <<>>

\* C30: a run of the sweep moves every active inference of its user whose
\* expires_at is not later than now to expired and every not yet stale
\* signal of its user whose stale_after is not later than now to stale,
\* reports how many of each it moved, and changes no other inference or
\* signal: not one whose deadline is still ahead, not an expired inference,
\* not a stale signal, not one of another user.
C30_SweepExpiresAndStales ==
    [][SweepStep =>
         LET I == inferences
             H == health_signals
             now == sweep'.now
             expires(i) == /\ I[i].user_id = sweep'.user_id /\ I[i].status = "active"
                           /\ I[i].expires_at[1] <= now
             stales(i) == /\ H[i].user_id = sweep'.user_id /\ H[i].stale = 0
                          /\ H[i].stale_after[1] <= now
             result == sweep'.result[1]
         IN  /\ Len(inferences') = Len(I) /\ Len(health_signals') = Len(H)
             /\ \A i \in 1..Len(I) :
                  /\ expires(i) => inferences'[i] = [I[i] EXCEPT !.status = "expired",
                                                                 !.updated_at = to_iso(now)]
                  /\ ~expires(i) => inferences'[i] = I[i]
                  /\ I[i].status = "expired" => inferences'[i] = I[i]
             /\ \A i \in 1..Len(H) :
                  /\ stales(i) => health_signals'[i] = [H[i] EXCEPT !.stale = 1,
                                                                    !.updated_at = to_iso(now)]
                  /\ ~stales(i) => health_signals'[i] = H[i]
                  /\ H[i].stale = 1 => health_signals'[i] = H[i]
             /\ result.inference_expired_count = Cardinality({i \in 1..Len(I) : expires(i)})
             /\ result.stale_health_signal_count = Cardinality({i \in 1..Len(H) : stales(i)})
      ]_vars

\* a sweep has expired one inference, at the very tick of its expires_at,
\* and marked one signal stale, and has left an inference and a signal of
\* another user, both past their deadline, as they were
C30_Witness ==
    /\ sweep.streak = 1
    /\ sweep.result[1].inference_expired_count = 1
    /\ sweep.result[1].stale_health_signal_count = 1
    /\ \E i, j \in 1..Len(inferences) :
         /\ inferences[i].user_id = sweep.user_id /\ inferences[i].status = "expired"
         /\ inferences[i].expires_at = <<sweep.now>>
         /\ inferences[i].updated_at = to_iso(sweep.now)
         /\ inferences[j].user_id # sweep.user_id /\ inferences[j].status = "active"
         /\ inferences[j].expires_at[1] <= sweep.now
    /\ \E i, j \in 1..Len(health_signals) :
         /\ health_signals[i].user_id = sweep.user_id /\ health_signals[i].stale = 1
         /\ health_signals[i].updated_at = to_iso(sweep.now)
         /\ health_signals[j].user_id # sweep.user_id /\ health_signals[j].stale = 0
         /\ health_signals[j].stale_after[1] <= sweep.now

(***************************************************************************)
(* Properties of the writers of an inference (specification SpecSweep)     *)
(***************************************************************************)
\* C31: an inference that is expired never becomes active again, and an
\* inference goes from active to expired only in a run of the sweep: no
\* write of the inference (upsert with the same id) does either.
C31_ExpiredOnlyBySweep ==
    [][\A i \in 1..Len(inferences) :
          /\ inferences[i].status = "expired" => inferences'[i].status = "expired"
          /\ (inferences[i].status = "active" /\ inferences'[i].status = "expired")
                => SweepStep
      ]_vars

(***************************************************************************)
(* Properties of the replay bucket (specification SpecReplay)              *)
(***************************************************************************)
\* the clock hour of tick t: two ticks to the hour
Hour(t) == t \div 2

\* the records user_id started under key in the clock hour of now
StartedInHour(user_id, key, now) ==
    {i \in 1..Len(ledger) : /\ ledger[i].user_id = user_id
                            /\ ledger[i].idempotency_key = key
                            /\ Hour(ledger[i].started_at) = Hour(now)}

\* C32: an execute whose user and idempotency key have no record started
\* in the current clock hour, whatever records they have from earlier
\* hours, creates a new record with a new action_id, is not flagged
\* replayed and goes on to the gates and the handler from state planned
\* instead of returning a stored outcome; an execute whose user and key do
\* have a record started in the current hour creates none and is flagged
\* replayed with that record's action_id.
C32_BucketBoundsReplay ==
    [][\A p \in Threads :
         CallBy(p, "execute")
         => LET c == call'[p]
                same == StartedInHour(c.ctx.user_id, c.idempotency_key, clock)
            IN  /\ same = {} =>
                     /\ Len(ledger') = Len(ledger) + 1
                     /\ \A i \in 1..Len(ledger) : ledger'[i] = ledger[i]
                     /\ loc'[p].action_id = Len(ledger')
                     /\ ledger'[Len(ledger')].status = "planned"
                     /\ ledger'[Len(ledger')].started_at = clock
                     /\ ~loc'[p].replayed
                     /\ loc'[p].current_state = "planned"
                     /\ pc'[p] # "done"
                     /\ handler_calls'[Len(ledger')] = 0
                /\ same # {} =>
                     /\ ledger' = ledger
                     /\ loc'[p].replayed
                     /\ loc'[p].action_id \in same
      ]_vars

\* an execute ended in a terminal state in one clock hour; an execute of
\* the same user with the same key in the next hour got a record of its
\* own, ran the handler once and returned succeeded, not replayed
C32_Witness ==
    \E p, q \in Threads :
        /\ pc[p] = "done" /\ pc[q] = "done"
        /\ call[p].op = "execute" /\ call[q].op = "execute"
        /\ call[p].ctx.user_id = call[q].ctx.user_id
        /\ call[p].idempotency_key = call[q].idempotency_key
        /\ call[p].seq < call[q].seq
        /\ Len(ledger) = 2
        /\ ret[p].action_id = 1 /\ ret[q].action_id = 2
        /\ Hour(ledger[1].started_at) < Hour(ledger[2].started_at)
        /\ ledger[1].status \in TerminalStatuses
        /\ ~ret[q].data.replayed
        /\ handler_calls[2] = 1
        /\ ret[q].status = "succeeded"

(***************************************************************************)
(* Properties of the retry of a pending action (specification SpecReuse)   *)
(***************************************************************************)
\* thread p, alone at work, retries an action that is pending: its execute
\* is confirmed, was given the stored record (same user, key and bucket),
\* carries the payload hash of the record and a token that validates, and
\* takes its first ledger step
RetriesPending(p) ==
    /\ pc[p] = "t_read" /\ pc'[p] # "t_read"
    /\ call[p].op = "execute" /\ loc[p].site = "await"
    /\ \A q \in Threads \ {p} : pc[q] \in {"idle", "done"}
    /\ loc[p].replayed /\ loc[p].current_state = "pending"
    /\ ledger[loc[p].action_id].status = "pending"
    /\ ledger[loc[p].action_id].payload_hash = canonical_payload_hash(call[p].payload)
    /\ call[p].ctx.user_confirmed /\ ~call[p].ctx.emergency
    /\ before_tool_call(call[p].ctx, call[p].tool, call[p].payload, tokens, clock).allowed

\* C33: the retry of a pending transactional action, confirmed, by the
\* same user with the same payload, key and bucket and with the token
\* still valid, is not turned away at its first ledger step: it goes on to
\* the gates and the handler.
C33_PendingRetryGoesOn ==
    [][\A p \in Threads : RetriesPending(p) => pc'[p] # "done"]_vars

(***************************************************************************)
(* Properties of concurrent transitions of one action (specification       *)
(* SpecRace)                                                               *)
(***************************************************************************)
\* C34: every stored value of a record's lifecycle is the value stored
\* before it plus exactly one element, whatever the interleaving of the
\* transition calls on that record; so of two calls that found the record
\* executing and ask for different states, not both return a lifecycle.
C34_LifecycleAppendOnly ==
    [][/\ Len(ledger') >= Len(ledger)
       /\ \A i \in 1..Len(ledger) :
            ledger'[i].lifecycle # ledger[i].lifecycle
            => /\ Len(ledger'[i].lifecycle) = Len(ledger[i].lifecycle) + 1
               /\ SubSeq(ledger'[i].lifecycle, 1, Len(ledger[i].lifecycle))
                     = ledger[i].lifecycle
       /\ \A p, q \in Threads :
            ( /\ p # q
              /\ call'[p].op = "transition" /\ call'[q].op = "transition"
              /\ call'[p].action_id = call'[q].action_id
              /\ ret'[p].kind = "lifecycle" /\ ret'[q].kind = "lifecycle"
              /\ Len(ret'[p].lifecycle) = Len(ret'[q].lifecycle) )
            => ret'[p].lifecycle = ret'[q].lifecycle
      ]_vars

(***************************************************************************)
(* Properties of one token presented for several actions (specification    *)
(* SpecReuse)                                                              *)
(***************************************************************************)
\* the actions that presented token tk, got past the consent validation
\* and had their handler invoked to a booking
BookedWith(tk) ==
    {i \in 1..Len(ledger) : /\ ledger[i].consent_token = tk
                            /\ handler_calls[i] > 0
                            /\ ledger[i].status \in {"succeeded", "partial"}}

\* C35: a consent token is single-use under every interleaving: of the
\* actions (records with different idempotency keys) whose executes
\* present one token, at most one passes the consent validation and has
\* its handler invoked to a booking.
C35_TokenSingleUse ==
    \A i \in 1..Len(tokens) : Cardinality(BookedWith(tokens[i].token)) <= 1

(***************************************************************************)
(* Properties of run_before (specification SpecBefore)                     *)
(***************************************************************************)
\* what the i-th registered pre-hook answers to the call c
Answer(c, i) == before_hook(c.hooks[i], c.ctx, c.tool, c.payload, tokens, clock)

\* the registered pre-hooks that deny the call c
Deniers(c) == {i \in 1..Len(c.hooks) : ~Answer(c, i).allowed}

\* C36: run_before calls the registered pre-hooks in registration order up
\* to and including the first that denies, and returns that hook's
\* decision, code and message; it calls no hook registered after it; with
\* no denying hook, or none registered, it calls them all and returns
\* allowed.
C36_FirstDenialWins ==
    [][\A p \in Threads :
         CallBy(p, "run_before")
         => LET c == call'[p]
                r == ret'[p]
            IN  /\ Deniers(c) # {} =>
                     LET k == CHOOSE i \in Deniers(c) : \A j \in Deniers(c) : i <= j
                     IN  /\ r.called = SubSeq(c.hooks, 1, k)
                         /\ ~r.allowed
                         /\ r.code = Answer(c, k).code
                         /\ r.message = Answer(c, k).message
                /\ Deniers(c) = {} =>
                     /\ r.called = c.hooks
                     /\ r.allowed /\ r.code = "ok" /\ r.message = "allowed"
      ]_vars

\* on a runner with two pre-hooks that both deny the request (the booking
\* of b2 without a token), only the first was called and its decision
\* returned; on the runner with the two registered the other way round,
\* the other hook's decision was returned for the same request
C36_Witness ==
    \E p, q \in Threads :
        /\ call[p].op = "run_before" /\ call[q].op = "run_before"
        /\ call[p].payload = call[q].payload /\ call[p].tool = call[q].tool
        /\ call[p].hooks = <<"_before_tool_call", "denying_hook">>
        /\ call[q].hooks = <<"denying_hook", "_before_tool_call">>
        /\ ret[p].called = <<"_before_tool_call">>
        /\ ret[p].code = "missing_consent_token"
        /\ ret[q].called = <<"denying_hook">>
        /\ ret[q].code = "hook_denied"

(***************************************************************************)
(* Properties of the replay of another request (specification SpecBinding) *)
(***************************************************************************)
\* C37: an execute that returns a stored outcome (replayed=true, at its
\* first step, without the handler) returns the outcome of a record that
\* was created for its own tool and its own payload hash: a request that
\* reuses the idempotency key with another tool or another payload is not
\* answered with the other action's outcome.
C37_ReplaySameActionOnly ==
    [][\A p \in Threads :
         (CallBy(p, "execute") /\ pc'[p] = "done" /\ ret'[p].data.replayed)
         => LET row == ledger[ret'[p].action_id]
            IN  /\ row.action_type = call'[p].tool.name
                /\ row.payload_hash = canonical_payload_hash(call'[p].payload)
      ]_vars

(***************************************************************************)
(* Properties of the post-hooks after the handler (specification           *)
(* SpecResult)                                                             *)
(***************************************************************************)
\* C38: an execute call that invoked the tool handler has, when it
\* returns, run the post-hooks exactly once, whatever the handler returned
\* and also when the transition recording the handler's outcome was
\* rejected.
C38_PostHooksAfterHandler ==
    \A p \in Threads :
        (pc[p] = "done" /\ call[p].op = "execute" /\ loc[p].handler_runs > 0)
        => loc[p].after_runs = 1

(***************************************************************************)
(* Properties of the record an execute leaves (specification SpecOutcome)  *)
(***************************************************************************)
\* thread p returns in this step from an execute that created its action
ReturnsFresh(p) ==
    /\ call[p].op = "execute" /\ pc[p] \notin {"idle", "done"} /\ pc'[p] = "done"
    /\ ~loc[p].replayed

\* C39: when an execute call that created its action returns (the handler
\* terminated, no hook raised), the action's record is in a terminal state
\* or pending, not planned, awaiting_confirmation or executing, and the
\* status and the lifecycle of the returned result are those of the record.
C39_ReturnLeavesRecordSettled ==
    [][\A p \in Threads :
         ReturnsFresh(p)
         => LET row == ledger'[loc[p].action_id]
            IN  /\ row.status \in TerminalStatuses \cup {"pending"}
                /\ ret'[p].status = row.status
                /\ ret'[p].lifecycle = row.lifecycle
      ]_vars

(***************************************************************************)
(* Properties of the isolation of users (specification SpecIsolation)      *)
(***************************************************************************)
\* thread p takes this step
ActsBy(p) == <<pc[p], call[p], loc[p], ret[p]>>' # <<pc[p], call[p], loc[p], ret[p]>>

\* the records of the user of call c under c's key and bucket
OwnRecords(c) ==
    {i \in 1..Len(ledger) : /\ ledger[i].user_id = c.ctx.user_id
                            /\ ledger[i].idempotency_key = c.idempotency_key
                            /\ ledger[i].replay_window_bucket = c.bucket}

\* the rows of table T that are not rows of user_id are the same in U
OthersUntouched(T, U, user_id) ==
    /\ Len(U) = Len(T)
    /\ \A i \in 1..Len(T) : T[i].user_id # user_id => U[i] = T[i]

\* C40: an execute works on, returns and modifies only records of its own
\* user: it is flagged replayed exactly when its user already holds a
\* record for the key and bucket, whatever another user holds under the
\* same key, and otherwise gets a new record and action_id; every change
\* of a record is made by a call of the record's user; and a sweep for a
\* user changes no symptom state, inference or signal of another user and
\* no action record.
C40_UserIsolation ==
    [][/\ Len(ledger') >= Len(ledger)
       /\ \A i \in 1..Len(ledger) :
            ledger'[i] # ledger[i]
            => \E p \in Threads : /\ ActsBy(p) /\ call[p].op = "execute"
                                  /\ loc[p].action_id = i
                                  /\ call[p].ctx.user_id = ledger[i].user_id
       /\ \A p \in Threads :
            CallBy(p, "execute")
            => LET c == call'[p]
               IN  /\ ledger'[loc'[p].action_id].user_id = c.ctx.user_id
                   /\ loc'[p].replayed <=> OwnRecords(c) # {}
                   /\ OwnRecords(c) # {} => loc'[p].action_id \in OwnRecords(c)
                   /\ OwnRecords(c) = {} =>
                        /\ Len(ledger') = Len(ledger) + 1
                        /\ loc'[p].action_id = Len(ledger')
       /\ \A p \in Threads :
            (call'[p].op = "execute" /\ pc[p] # "done" /\ pc'[p] = "done")
            => ledger'[ret'[p].action_id].user_id = call'[p].ctx.user_id
       /\ SweepStep
            => /\ OthersUntouched(symptom_states, symptom_states', sweep'.user_id)
               /\ OthersUntouched(inferences, inferences', sweep'.user_id)
               /\ OthersUntouched(health_signals, health_signals', sweep'.user_id)
               /\ ledger' = ledger /\ tokens' = tokens
      ]_vars

\* u1 and u2 each ran the clinic search under key k1 in the same bucket:
\* two records, two action ids, neither call flagged replayed, both
\* succeeded; and a sweep for one user has resolved, expired and marked
\* stale that user's rows while the other user's rows, as old, are as they
\* were
C40_Witness ==
    /\ Len(ledger) = 2
    /\ ledger[1].user_id # ledger[2].user_id
    /\ ledger[1].idempotency_key = ledger[2].idempotency_key
    /\ ledger[1].replay_window_bucket = ledger[2].replay_window_bucket
    /\ \A p \in Threads :
         /\ pc[p] = "done" /\ call[p].op = "execute"
         /\ ~loc[p].replayed /\ ~ret[p].data.replayed
         /\ ret[p].status = "succeeded"
         /\ ledger[ret[p].action_id].user_id = call[p].ctx.user_id
    /\ ret["w1"].action_id # ret["w2"].action_id
    /\ sweep.streak = 1
    /\ sweep.result[1].resolved_unconfirmed_count = 1
    /\ sweep.result[1].inference_expired_count = 1
    /\ sweep.result[1].stale_health_signal_count = 1
    /\ \E i \in 1..Len(inferences) :
         /\ inferences[i].user_id # sweep.user_id /\ inferences[i].status = "active"
         /\ inferences[i].expires_at[1] <= sweep.now
    /\ \E i \in 1..Len(symptom_states) :
         symptom_states[i].user_id # sweep.user_id /\ symptom_states[i].status = "active"
    /\ \E i \in 1..Len(health_signals) :
         health_signals[i].user_id # sweep.user_id /\ health_signals[i].stale = 0

====
